---------------------------- MODULE Spec2Model ----------------------------
(***************************************************************************)
(* A model of the Monkey interpreter: the lexer (src/wasm/src/lexer.rs and *)
(* the older src/src/lexer.rs), the Pratt parser (src/wasm/src/parser.rs)  *)
(* and the tree-walking evaluator (src/src/eval.rs, src/src/object.rs).    *)
(*                                                                         *)
(* Each component has its own specification over the shared variables:     *)
(*   SpecLexer   repeated calls of Lexer::next_token on one input          *)
(*   SpecParser  Parser::new followed by the loop of parse_program         *)
(*   SpecExpectPeek  calls of Parser::expect_peek on a new parser          *)
(*   SpecEval    eval of the programs of a session, one after the other    *)
(* Rust functions are operators of the same name that thread the mutable   *)
(* state (the lexer, the parser, the environment heap) through records.    *)
(* A Rust panic and a loop that never exits are explicit outcomes          *)
(* ("panic", "hang") of the operator in which they happen.                 *)
(***************************************************************************)
EXTENDS Integers, Sequences, FiniteSets, TLC

VARIABLES
    lx,         \* the Lexer struct: input, position, read_position, ch
    lxVariant,  \* which lexer source file is running: "wasm" or "src"
    lxToks,     \* the tokens next_token has returned so far, in order
    lxStatus,   \* "ok", or "hang" once a call of next_token never returns
    ps,         \* the Parser struct: l, cur_token, peek_token, errors
    program,    \* Program.statements as parse_program has built it so far
    pStatus,    \* "parsing", "done" (returned), "panic" or "hang"
    rendered,   \* Program::string of the returned program
    rerendered, \* Program::string of the program parsed from `rendered`
    rtStatus,   \* "none"; "rendered" or "nostring"; "reparsed", "panic" or "hang"
    ep,         \* the calls of expect_peek made on ps: how many, and of the last
                \* one the kind asked for, the parser before it and what it returned
    evProgram,  \* the Program given to eval: its statements
    evPc,       \* the statement the loop of eval_statements is at, from 1
    evMachine,  \* the evaluator's heap of environments, output and trace
    evResult,   \* `result` of eval_statements, and what eval returned
    evStatus,   \* "running", "done" (returned) or "panic"
    evSession   \* the programs eval has returned for before, with what it returned

lexVars == <<lx, lxVariant, lxToks, lxStatus>>

parVars == <<ps, program, pStatus, rendered, rerendered, rtStatus, ep>>

evalVars == <<evProgram, evPc, evMachine, evResult, evStatus, evSession>>

vars ==
    <<lx, lxVariant, lxToks, lxStatus, ps, program, pStatus,
      rendered, rerendered, rtStatus, ep,
      evProgram, evPc, evMachine, evResult, evStatus, evSession>>

-----------------------------------------------------------------------------
(* Bounds of the model.                                                    *)

\* longest input, in bytes, given to the lexer
MaxInputLen == 3

\* calls of next_token made after the first EOF token
MaxEofCalls == 2

\* most calls of expect_peek made one after the other on a parser
MaxExpectCalls == 2

\* longest freely chosen part of a token stream given to the parser
MaxFreeToks == 2

\* most programs given to eval one after the other
MaxLines == 2

\* most statements in the freely chosen part of a program given to eval
MaxFreeStmts == 2

-----------------------------------------------------------------------------
(* Bytes.  The lexer works on u8 values; these are their ASCII codes.      *)

NUL == 0
QUOTE == 34
ZERO_DIGIT == 48

\* the input bytes the model draws from:
\*   NUL, space, '!', '"', '0', '1', '=', '@', 'f', 'n'
LexAlphabet == {NUL, 32, 33, QUOTE, ZERO_DIGIT, 49, 61, 64, 102, 110}

is_ascii_digit(ch) == ch >= 48 /\ ch <= 57

is_ascii_alphabetic(ch) == (ch >= 65 /\ ch <= 90) \/ (ch >= 97 /\ ch <= 122)

is_whitespace(ch) == ch \in {32, 13, 10, 9}

\* u8::to_string: the decimal digits of the byte, as bytes
u8_to_string(ch) ==
    IF ch < 10 THEN <<48 + ch>>
    ELSE IF ch < 100 THEN <<48 + (ch \div 10), 48 + (ch % 10)>>
    ELSE <<48 + (ch \div 100), 48 + ((ch \div 10) % 10), 48 + (ch % 10)>>

\* &input[from..to] with 0-based, end-exclusive offsets
Slice(input, from, to) == SubSeq(input, from + 1, to)

\* i64::to_string
RECURSIVE u64_to_string(_)
u64_to_string(n) ==
    IF n < 10 THEN <<48 + n>> ELSE Append(u64_to_string(n \div 10), 48 + (n % 10))

i64_to_string(n) == IF n < 0 THEN <<45>> \o u64_to_string(0 - n) ELSE u64_to_string(n)

\* items.join(", ")
RECURSIVE join(_)
join(items) ==
    IF Len(items) = 0 THEN <<>>
    ELSE IF Len(items) = 1 THEN items[1]
    ELSE items[1] \o <<44, 32>> \o join(Tail(items))

-----------------------------------------------------------------------------
(* Tokens (token.rs).                                                      *)

Token(type, literal) == [type |-> type, literal |-> literal]

\* KEYWORDS: fn let true false if else return
KEYWORDS ==
    {<<<<102, 110>>, "FUNCTION">>,
     <<<<108, 101, 116>>, "LET">>,
     <<<<116, 114, 117, 101>>, "TRUE">>,
     <<<<102, 97, 108, 115, 101>>, "FALSE">>,
     <<<<105, 102>>, "IF">>,
     <<<<101, 108, 115, 101>>, "ELSE">>,
     <<<<114, 101, 116, 117, 114, 110>>, "RETURN">>}

lookup_ident(literal) ==
    IF \E kw \in KEYWORDS : kw[1] = literal
    THEN (CHOOSE kw \in KEYWORDS : kw[1] = literal)[2]
    ELSE "IDENT"

\* the single-byte tokens both lexers know
PunctCommon ==
    {<<59, "SEMICOLON">>, <<40, "LPAREN">>, <<41, "RPAREN">>, <<44, "COMMA">>,
     <<43, "PLUS">>, <<123, "LBRACE">>, <<125, "RBRACE">>, <<45, "MINUS">>,
     <<47, "SLASH">>, <<42, "ASTERISK">>, <<60, "LT">>, <<62, "GT">>}

\* the single-byte tokens only the wasm lexer knows
PunctWasm == {<<91, "LBRACKET">>, <<93, "RBRACKET">>, <<58, "COLON">>}

Punct(variant) == IF variant = "wasm" THEN PunctCommon \cup PunctWasm ELSE PunctCommon

-----------------------------------------------------------------------------
(* The lexer (lexer.rs).                                                   *)

read_char(l) ==
    [l EXCEPT !.ch = IF l.read_position >= Len(l.input)
                     THEN NUL
                     ELSE l.input[l.read_position + 1],
              !.position = l.read_position,
              !.read_position = l.read_position + 1]

Lexer_new(input) ==
    read_char([input |-> input, position |-> 0, read_position |-> 0, ch |-> NUL])

peek_char(l) ==
    IF l.read_position >= Len(l.input) THEN NUL ELSE l.input[l.read_position + 1]

RECURSIVE skip_whitespace(_)
skip_whitespace(l) ==
    IF is_whitespace(l.ch) THEN skip_whitespace(read_char(l)) ELSE l

RECURSIVE read_number_loop(_)
read_number_loop(l) ==
    IF is_ascii_digit(l.ch) THEN read_number_loop(read_char(l)) ELSE l

read_number(l) ==
    LET l2 == read_number_loop(l)
    IN  [lit |-> Slice(l.input, l.position, l2.position), l |-> l2]

RECURSIVE read_identifier_loop(_)
read_identifier_loop(l) ==
    IF l.ch = 95 \/ is_ascii_alphabetic(l.ch)
    THEN read_identifier_loop(read_char(l))
    ELSE l

read_identifier(l) ==
    LET l2 == read_identifier_loop(l)
    IN  [lit |-> Slice(l.input, l.position, l2.position), l |-> l2]

\* the byte that ends the loop of read_string: `self.ch == b'"' || self.ch == b'0'`
read_string_stops(ch) == ch = QUOTE \/ ch = ZERO_DIGIT

\* The loop of read_string.  Once read_position has passed the end of the
\* input every read_char sets ch to NUL, which is not an exit byte, so the
\* loop never exits: the outcome is "hang".
RECURSIVE read_string_loop(_)
read_string_loop(l) ==
    LET l2 == read_char(l)
    IN  IF read_string_stops(l2.ch) THEN [status |-> "ok", l |-> l2]
        ELSE IF l2.position >= Len(l2.input) THEN [status |-> "hang", l |-> l2]
        ELSE read_string_loop(l2)

read_string(l) ==
    LET initial_position == l.position + 1
        r == read_string_loop(l)
    IN  [status |-> r.status,
         lit |-> IF r.status = "ok"
                 THEN Slice(l.input, initial_position, r.l.position)
                 ELSE <<>>,
         l |-> r.l]

\* next_token: [status, tok, l].  status is "hang" when the call never returns.
next_token(variant, l0) ==
    LET l == skip_whitespace(l0)
        ch == l.ch
        Done(tok, l2, skip) ==
            [status |-> "ok", tok |-> tok, l |-> IF skip THEN l2 ELSE read_char(l2)]
    IN  IF \E p \in Punct(variant) : p[1] = ch
        THEN Done(Token((CHOOSE p \in Punct(variant) : p[1] = ch)[2], <<ch>>), l, FALSE)
        ELSE IF ch = NUL
        THEN Done(Token("EOF", <<>>), l, FALSE)
        ELSE IF ch = QUOTE /\ variant = "wasm"
        THEN LET r == read_string(l)
             IN  IF r.status = "hang"
                 THEN [status |-> "hang", tok |-> Token("STRING", <<>>), l |-> r.l]
                 ELSE Done(Token("STRING", r.lit), r.l, FALSE)
        ELSE IF ch = 33
        THEN IF peek_char(l) = 61
             THEN Done(Token("NOTEQ", <<33, 61>>), read_char(l), FALSE)
             ELSE Done(Token("BANG", <<33>>), l, FALSE)
        ELSE IF ch = 61
        THEN IF peek_char(l) = 61
             THEN Done(Token("EQ", <<61, 61>>), read_char(l), FALSE)
             ELSE Done(Token("ASSIGN", <<61>>), l, FALSE)
        ELSE IF ch = 95 \/ is_ascii_alphabetic(ch)
        THEN LET r == read_identifier(l)
             IN  Done(Token(lookup_ident(r.lit), r.lit), r.l, TRUE)
        ELSE IF is_ascii_digit(ch)
        THEN LET r == read_number(l)
             IN  Done(Token("INT", r.lit), r.l, TRUE)
        ELSE Done(Token("ILLEGAL", u8_to_string(ch)), l, FALSE)

\* Parser::new and Parser::next_token call next_token until the parser has
\* seen EOF: the tokens of an input, up to the EOF at its end.  status is
\* "hang" when a call never returns.
RECURSIVE tokenize_loop(_, _)
tokenize_loop(l, toks) ==
    LET r == next_token("wasm", l)
    IN  IF r.status = "hang" THEN [status |-> "hang", toks |-> toks]
        ELSE IF r.tok.type = "EOF" /\ r.l.position >= Len(r.l.input)
        THEN [status |-> "ok", toks |-> toks]
        ELSE tokenize_loop(r.l, Append(toks, r.tok))

tokenize(input) == tokenize_loop(Lexer_new(input), <<>>)

-----------------------------------------------------------------------------
(* SpecLexer: a caller that keeps calling next_token on one input.         *)

RECURSIVE SeqsUpTo(_, _)
SeqsUpTo(S, n) ==
    IF n = 0 THEN {<<>>}
    ELSE LET shorter == SeqsUpTo(S, n - 1)
         IN  shorter \cup {Append(s, x) : s \in shorter, x \in S}

EofCount(toks) == Cardinality({i \in 1..Len(toks) : toks[i].type = "EOF"})

LexerIdle ==
    /\ lx = <<>>
    /\ lxVariant = "none"
    /\ lxToks = <<>>
    /\ lxStatus = "idle"

ParserIdle ==
    /\ ps = <<>>
    /\ program = <<>>
    /\ pStatus = "idle"
    /\ rendered = <<>>
    /\ rerendered = <<>>
    /\ rtStatus = "idle"
    /\ ep = <<>>

EvalIdle ==
    /\ evProgram = <<>>
    /\ evPc = 0
    /\ evMachine = <<>>
    /\ evResult = <<>>
    /\ evStatus = "idle"
    /\ evSession = <<>>

LexInit ==
    /\ ParserIdle
    /\ EvalIdle
    /\ lxVariant \in {"wasm", "src"}
    /\ \E input \in SeqsUpTo(LexAlphabet, MaxInputLen) : lx = Lexer_new(input)
    /\ lxToks = <<>>
    /\ lxStatus = "ok"

\* one call of next_token that returns a token
LexNextToken ==
    /\ lxStatus = "ok"
    /\ EofCount(lxToks) <= MaxEofCalls
    /\ LET r == next_token(lxVariant, lx)
       IN  /\ r.status = "ok"
           /\ lx' = r.l
           /\ lxToks' = Append(lxToks, r.tok)
    /\ UNCHANGED <<lxVariant, lxStatus>>
    /\ UNCHANGED <<parVars, evalVars>>

\* one call of next_token that never returns
LexHang ==
    /\ lxStatus = "ok"
    /\ LET r == next_token(lxVariant, lx)
       IN  /\ r.status = "hang"
           /\ lx' = r.l
    /\ lxStatus' = "hang"
    /\ UNCHANGED <<lxVariant, lxToks>>
    /\ UNCHANGED <<parVars, evalVars>>

LexNext == LexNextToken \/ LexHang

SpecLexer == LexInit /\ [][LexNext]_vars

-----------------------------------------------------------------------------
(* The AST (ast.rs).  Option<T> is a sequence of zero or one T.            *)

None == <<>>

Some(x) == <<x>>

Identifier(token) == [kind |-> "IDENTIFIER", token |-> token, value |-> token.literal]

IntegerLiteral(token, value) == [kind |-> "INTEGER", token |-> token, value |-> value]

BooleanExpression(token, value) == [kind |-> "BOOLEAN", token |-> token, bvalue |-> value]

StringLiteralExp(token) ==
    [kind |-> "StringLiteral", token |-> token, svalue |-> token.literal]

PrefixExpression(token, right) ==
    [kind |-> "PREFIX", token |-> token, operator |-> token.literal, right |-> right]

InfixExpression(token, left, right) ==
    [kind |-> "INFIX", token |-> token, operator |-> token.literal,
     left |-> left, right |-> right]

IfExpression(token, condition, consequence, alternative) ==
    [kind |-> "IF", token |-> token, condition |-> condition,
     consequence |-> consequence, alternative |-> alternative]

FnExpression(token, parameters, body) ==
    [kind |-> "FN", token |-> token, parameters |-> parameters, body |-> body]

CallExpression(token, function, args) ==
    [kind |-> "CALL", token |-> token, function |-> function, args |-> args]

ArrayLitearl(token, items) == [kind |-> "ArrayLiteral", token |-> token, items |-> items]

IndexExpression(token, left, index) ==
    [kind |-> "IndexExpression", token |-> token, left |-> left, index |-> index]

HashLiteral(token, pairs) == [kind |-> "HashLiteral", token |-> token, pairs |-> pairs]

BlockStatement(token, statements) == [token |-> token, statements |-> statements]

LetStatement(token, name, value) ==
    [kind |-> "LETSTATEMENT", token |-> token, name |-> name, value |-> value]

ReturnStatement(token, return_value) ==
    [kind |-> "RETURNSTATEMENT", token |-> token, return_value |-> return_value]

ExpressionStatement(token, expression) ==
    [kind |-> "EXPRESSIONSTATEMENT", token |-> token, expression |-> expression]

-----------------------------------------------------------------------------
(* Node::string (src/src/ast.rs), on byte strings.                         *)

\* ast.rs has no HashLiteral and so no string() of one: where it would
\* stand, the rendering holds this value, which is no byte
NoString == 256

RECURSIVE string(_)
RECURSIVE strings(_)

\* the string() of each node of a Vec, in order
strings(nodes) ==
    IF Len(nodes) = 0 THEN <<>> ELSE <<string(nodes[1])>> \o strings(Tail(nodes))

\* for s in v { str.push_str(s) }
RECURSIVE concat(_)
concat(strs) == IF Len(strs) = 0 THEN <<>> ELSE strs[1] \o concat(Tail(strs))

\* BlockStatement::string
BlockStatement_string(block) == concat(strings(block.statements))

\* string() of a Statement or an EXPRESSION, by variant
string(node) ==
    CASE node.kind = "LETSTATEMENT" ->
            node.token.literal \o <<32>> \o string(node.name) \o <<32, 61, 32>>
                \o string(node.value) \o <<59>>
      [] node.kind = "RETURNSTATEMENT" -> node.token.literal \o <<32>> \o <<59>>
      [] node.kind = "EXPRESSIONSTATEMENT" -> string(node.expression)
      [] node.kind = "IDENTIFIER" -> node.value
      [] node.kind = "INTEGER" -> i64_to_string(node.value)
      [] node.kind = "PREFIX" ->
            <<40>> \o node.operator \o string(node.right) \o <<41>>
      [] node.kind = "INFIX" ->
            <<40>> \o string(node.left) \o <<32>> \o node.operator \o <<32>>
                \o string(node.right) \o <<41>>
      [] node.kind = "BOOLEAN" -> node.token.literal
      [] node.kind = "IF" ->
            <<105, 102>> \o string(node.condition) \o <<32>>
                \o BlockStatement_string(node.consequence)
                \o (IF node.alternative # None
                    THEN <<101, 108, 115, 101, 32>>
                             \o BlockStatement_string(node.alternative[1])
                    ELSE <<>>)
      [] node.kind = "FN" ->
            node.token.literal \o <<40>> \o join(strings(node.parameters)) \o <<41>>
                \o BlockStatement_string(node.body)
      [] node.kind = "CALL" ->
            string(node.function) \o <<40>> \o join(strings(node.args)) \o <<41>>
      [] node.kind = "StringLiteral" -> node.token.literal
      [] node.kind = "ArrayLiteral" -> <<91>> \o join(strings(node.items)) \o <<93>>
      [] node.kind = "IndexExpression" ->
            <<40>> \o string(node.left) \o <<91>> \o string(node.index) \o <<93, 41>>
      [] node.kind = "HashLiteral" -> <<NoString>>

\* Program::string
Program_string(statements) == concat(strings(statements))

-----------------------------------------------------------------------------
(* The parser (src/wasm/src/parser.rs).                                    *)

\* enum PrecedenceType, ordered by declaration (derive PartialOrd)
PrecedenceType ==
    <<"LOWEST", "EQUALS", "LESSGREATER", "SUM", "PRODUCT", "PREFIX", "CALL", "INDEX">>

PrecedenceRank(prec) == CHOOSE i \in 1..Len(PrecedenceType) : PrecedenceType[i] = prec

\* `a < b` on PrecedenceType
PrecedenceLess(a, b) == PrecedenceRank(a) < PrecedenceRank(b)

PRECEDENCES ==
    {<<"EQ", "EQUALS">>, <<"NOTEQ", "EQUALS">>,
     <<"LT", "LESSGREATER">>, <<"GT", "LESSGREATER">>,
     <<"PLUS", "SUM">>, <<"MINUS", "SUM">>,
     <<"SLASH", "PRODUCT">>, <<"ASTERISK", "PRODUCT">>,
     <<"LPAREN", "CALL">>, <<"LBRACKET", "INDEX">>}

\* PRECEDENCES without its entries for `/` and `*`: the two fall back to the
\* precedence of `+` and `-`
precedence_of_no_product(type) ==
    IF type \in {"SLASH", "ASTERISK"} THEN "SUM"
    ELSE IF \E e \in PRECEDENCES : e[1] = type
    THEN (CHOOSE e \in PRECEDENCES : e[1] = type)[2]
    ELSE "LOWEST"

precedence_of(type) ==
    IF \E e \in PRECEDENCES : e[1] = type
    THEN (CHOOSE e \in PRECEDENCES : e[1] = type)[2]
    ELSE "LOWEST"

EOF_TOKEN == Token("EOF", <<>>)

\* The lexer as the parser sees it: the stream of tokens that next_token
\* returns, followed by EOF for every further call.
stream_next_token(l) ==
    [tok |-> IF l.idx <= Len(l.toks) THEN l.toks[l.idx] ELSE EOF_TOKEN,
     l |-> [l EXCEPT !.idx = l.idx + 1]]

Parser_next_token(p) ==
    LET r == stream_next_token(p.l)
    IN  [p EXCEPT !.cur_token = p.peek_token, !.peek_token = r.tok, !.l = r.l]

Parser_new(toks) ==
    Parser_next_token(Parser_next_token(
        [l |-> [toks |-> toks, idx |-> 1],
         cur_token |-> EOF_TOKEN,
         peek_token |-> EOF_TOKEN,
         errors |-> <<>>]))

cur_token_is(p, type) == p.cur_token.type = type

peek_token_is(p, type) == p.peek_token.type = type

peek_precedence(p) == precedence_of(p.peek_token.type)

cur_precedence(p) == precedence_of(p.cur_token.type)

\* format!("Expected next token to be {:?}, got {:?}", ..)
peek_errors(p, expected_token_type) ==
    [p EXCEPT !.errors =
        Append(@, <<"Expected next token to be", expected_token_type,
                    "got", p.peek_token.type>>)]

\* expect_peek that goes to the next token whatever the peek token is
expect_peek_skipping(p, type) ==
    IF peek_token_is(p, type)
    THEN [ok |-> TRUE, p |-> Parser_next_token(p)]
    ELSE [ok |-> FALSE, p |-> Parser_next_token(peek_errors(p, type))]

\* expect_peek: [ok, p]
expect_peek(p, type) ==
    IF peek_token_is(p, type)
    THEN [ok |-> TRUE, p |-> Parser_next_token(p)]
    ELSE [ok |-> FALSE, p |-> peek_errors(p, type)]

\* What a parse function hands back: the parser after it, with its value
\* (st = "ok"), or the fact that it panicked or never returns.
Ok(p, v) == [st |-> "ok", p |-> p, v |-> v]

Panic(p) == [st |-> "panic", p |-> p, v |-> <<>>]

Hang(p) == [st |-> "hang", p |-> p, v |-> <<>>]

\* str::parse::<i64> on a token literal.  Literals of up to 9 digits are
\* evaluated; a longer run of digits is taken to overflow i64 when it has
\* more than 19 digits (the model's tokens have no literal in between).
RECURSIVE decimal_value(_)
decimal_value(lit) ==
    IF lit = <<>> THEN 0
    ELSE 10 * decimal_value(SubSeq(lit, 1, Len(lit) - 1)) + (lit[Len(lit)] - 48)

parse_i64(lit) ==
    IF lit = <<>> \/ (\E i \in 1..Len(lit) : ~is_ascii_digit(lit[i])) \/ Len(lit) > 19
    THEN [ok |-> FALSE, val |-> 0]
    ELSE [ok |-> TRUE, val |-> decimal_value(lit)]

pares_identifier(p) == Ok(p, Identifier(p.cur_token))

parse_integer(p) ==
    LET r == parse_i64(p.cur_token.literal)
    IN  IF r.ok
        THEN Ok(p, IntegerLiteral(p.cur_token, r.val))
        ELSE Ok([p EXCEPT !.errors =
                    Append(@, <<"Could not parse", p.cur_token.literal, "as integer">>)],
                IntegerLiteral(p.cur_token, 0))

parse_boolean(p) == Ok(p, BooleanExpression(p.cur_token, cur_token_is(p, "TRUE")))

parse_string_literal(p) == Ok(p, StringLiteralExp(p.cur_token))

InfixTokens == {"PLUS", "MINUS", "SLASH", "ASTERISK", "EQ", "NOTEQ", "LT", "GT"}

\* Sequencing of parse functions.  Then(r, K) continues with K on the
\* result r of a parse function that returned, and hands a panic or a hang
\* on unchanged; OrPanic(e, K) is `if !self.expect_peek(..) { panic!(..) }`
\* followed by K on the parser after the expected token; OrNone(e, K) is
\* `if !self.expect_peek(..) { return None; }` followed by K.
Then(r, K(_)) == IF r.st # "ok" THEN r ELSE K(r)

OrPanic(e, K(_)) == IF ~e.ok THEN Panic(e.p) ELSE K(e.p)

OrNone(e, K(_)) == IF ~e.ok THEN Ok(e.p, None) ELSE K(e.p)

\* parse_expression and parse_block_statement call each other through the
\* parselets; parse_rec ties that recursion: the parselets reach the two
\* through call_parse_expression and call_parse_block_statement.
RECURSIVE parse_rec(_, _, _)

call_parse_expression(p, precedence) == parse_rec("parse_expression", p, precedence)

call_parse_block_statement(p) == parse_rec("parse_block_statement", p, "LOWEST")

\* the optional trailing `;` of a statement
skip_semicolon(p) == IF peek_token_is(p, "SEMICOLON") THEN Parser_next_token(p) ELSE p

parse_prefix_expression(p) ==
    Then(call_parse_expression(Parser_next_token(p), "PREFIX"), LAMBDA right :
        Ok(right.p, PrefixExpression(p.cur_token, right.v)))

infix_right_precedence_lowest(p) == "LOWEST"

\* the precedence at which parse_infix_expression parses its right operand
infix_right_precedence(p) == cur_precedence(p)

parse_infix_expression(p, left) ==
    Then(call_parse_expression(Parser_next_token(p), infix_right_precedence(p)),
         LAMBDA right : Ok(right.p, InfixExpression(p.cur_token, left, right.v)))

parse_grouped_expression(p) ==
    Then(call_parse_expression(Parser_next_token(p), "LOWEST"), LAMBDA exp :
        Ok(Parser_next_token(exp.p), exp.v))

RECURSIVE parse_hash_literal_loop(_, _)
parse_hash_literal_loop(p, pairs) ==
    IF ~peek_token_is(p, "RBRACE")
    THEN Then(call_parse_expression(Parser_next_token(p), "LOWEST"), LAMBDA key :
         OrPanic(expect_peek(key.p, "COLON"), LAMBDA p1 :
         Then(call_parse_expression(Parser_next_token(p1), "LOWEST"), LAMBDA val :
            IF ~peek_token_is(val.p, "RBRACE")
            THEN OrPanic(expect_peek(val.p, "COMMA"), LAMBDA p2 :
                    parse_hash_literal_loop(p2, Append(pairs, <<key.v, val.v>>)))
            ELSE parse_hash_literal_loop(val.p, Append(pairs, <<key.v, val.v>>)))))
    ELSE Ok(p, pairs)

parse_hash_literal(p) ==
    Then(parse_hash_literal_loop(p, <<>>), LAMBDA r :
    OrPanic(expect_peek(r.p, "RBRACE"), LAMBDA p1 :
        Ok(p1, HashLiteral(p.cur_token, r.v))))

parse_index_expression(p, left) ==
    Then(call_parse_expression(Parser_next_token(p), "LOWEST"), LAMBDA index :
    OrPanic(expect_peek(index.p, "RBRACKET"), LAMBDA p1 :
        Ok(p1, IndexExpression(p.cur_token, left, index.v))))

RECURSIVE parse_expression_list_loop(_, _)
parse_expression_list_loop(p, list) ==
    IF peek_token_is(p, "COMMA")
    THEN Then(call_parse_expression(Parser_next_token(Parser_next_token(p)), "LOWEST"),
              LAMBDA e : parse_expression_list_loop(e.p, Append(list, e.v)))
    ELSE Ok(p, list)

parse_expression_list(p, end) ==
    IF peek_token_is(p, end) THEN Ok(Parser_next_token(p), <<>>)
    ELSE Then(call_parse_expression(Parser_next_token(p), "LOWEST"), LAMBDA first :
         Then(parse_expression_list_loop(first.p, <<first.v>>), LAMBDA r :
         OrPanic(expect_peek(r.p, end), LAMBDA p1 : Ok(p1, r.v))))

parse_array_literal(p) ==
    Then(parse_expression_list(p, "RBRACKET"), LAMBDA r :
        Ok(r.p, ArrayLitearl(p.cur_token, r.v)))

parse_call_expression(p, function) ==
    Then(parse_expression_list(p, "RPAREN"), LAMBDA r :
        Ok(r.p, CallExpression(p.cur_token, function, r.v)))

\* the `else` part of parse_if_expression, after the consequence block
parse_if_alternative(p, token, condition, consequence) ==
    IF peek_token_is(p, "ELSE")
    THEN OrPanic(expect_peek(Parser_next_token(p), "LBRACE"), LAMBDA p1 :
         Then(call_parse_block_statement(p1), LAMBDA alt :
            Ok(alt.p, IfExpression(token, condition, consequence, Some(alt.v)))))
    ELSE Ok(p, IfExpression(token, condition, consequence, None))

parse_if_expression(p) ==
    OrPanic(expect_peek(p, "LPAREN"), LAMBDA p1 :
    Then(call_parse_expression(Parser_next_token(p1), "LOWEST"), LAMBDA condition :
    OrPanic(expect_peek(condition.p, "RPAREN"), LAMBDA p2 :
    OrPanic(expect_peek(p2, "LBRACE"), LAMBDA p3 :
    Then(call_parse_block_statement(p3), LAMBDA consequence :
        parse_if_alternative(consequence.p, p.cur_token, condition.v, consequence.v))))))

RECURSIVE parse_fn_params_loop(_, _)
parse_fn_params_loop(p, params) ==
    IF peek_token_is(p, "COMMA")
    THEN parse_fn_params_loop(
            Parser_next_token(Parser_next_token(p)),
            Append(params, Identifier(Parser_next_token(Parser_next_token(p)).cur_token)))
    ELSE Ok(p, params)

parse_fn_params(p) ==
    IF peek_token_is(p, "RPAREN") THEN Ok(Parser_next_token(p), <<>>)
    ELSE Then(parse_fn_params_loop(Parser_next_token(p),
                                   <<Identifier(Parser_next_token(p).cur_token)>>),
              LAMBDA r : OrPanic(expect_peek(r.p, "RPAREN"), LAMBDA p1 : Ok(p1, r.v)))

parse_fn_literal(p) ==
    OrPanic(expect_peek(p, "LPAREN"), LAMBDA p1 :
    Then(parse_fn_params(p1), LAMBDA parameters :
    OrPanic(expect_peek(parameters.p, "LBRACE"), LAMBDA p2 :
    Then(call_parse_block_statement(p2), LAMBDA body :
        Ok(body.p, FnExpression(p.cur_token, parameters.v, body.v))))))

\* The `while` loop of parse_expression.  The `_ => left` arm consumes no
\* token, so the loop would repeat in the same state for ever.
RECURSIVE parse_expression_loop(_, _, _)
parse_expression_loop(p, precedence, left) ==
    IF ~peek_token_is(p, "SEMICOLON") /\ PrecedenceLess(precedence, peek_precedence(p))
    THEN Then(IF p.peek_token.type \in InfixTokens
              THEN parse_infix_expression(Parser_next_token(p), left)
              ELSE IF p.peek_token.type = "LPAREN"
              THEN parse_call_expression(Parser_next_token(p), left)
              ELSE IF p.peek_token.type = "LBRACKET"
              THEN parse_index_expression(Parser_next_token(p), left)
              ELSE Hang(p),
              LAMBDA r : parse_expression_loop(r.p, precedence, r.v))
    ELSE Ok(p, left)

\* the prefix position of parse_expression: `match self.cur_token.r#type`
parse_prefix_position(p) ==
    CASE p.cur_token.type = "IDENT" -> pares_identifier(p)
      [] p.cur_token.type = "INT" -> parse_integer(p)
      [] p.cur_token.type \in {"BANG", "MINUS"} -> parse_prefix_expression(p)
      [] p.cur_token.type \in {"TRUE", "FALSE"} -> parse_boolean(p)
      [] p.cur_token.type = "LPAREN" -> parse_grouped_expression(p)
      [] p.cur_token.type = "IF" -> parse_if_expression(p)
      [] p.cur_token.type = "FUNCTION" -> parse_fn_literal(p)
      [] p.cur_token.type = "STRING" -> parse_string_literal(p)
      [] p.cur_token.type = "LBRACKET" -> parse_array_literal(p)
      [] p.cur_token.type = "LBRACE" -> parse_hash_literal(p)
      [] OTHER -> Panic(p)

parse_expression(p, precedence) ==
    Then(parse_prefix_position(p), LAMBDA left :
        parse_expression_loop(left.p, precedence, left.v))

parse_exp_statement(p) ==
    Then(call_parse_expression(p, "LOWEST"), LAMBDA e :
        Ok(skip_semicolon(e.p), Some(ExpressionStatement(p.cur_token, e.v))))

parse_let_statement(p) ==
    OrNone(expect_peek(p, "IDENT"), LAMBDA p1 :
    OrNone(expect_peek(p1, "ASSIGN"), LAMBDA p2 :
    Then(call_parse_expression(Parser_next_token(p2), "LOWEST"), LAMBDA e :
        Ok(skip_semicolon(e.p),
           Some(LetStatement(p.cur_token, Identifier(p1.cur_token), e.v))))))

parse_return_statement(p) ==
    Then(call_parse_expression(Parser_next_token(p), "LOWEST"), LAMBDA e :
        Ok(skip_semicolon(e.p), Some(ReturnStatement(p.cur_token, e.v))))

parse_statement(p) ==
    IF p.cur_token.type = "LET" THEN parse_let_statement(p)
    ELSE IF p.cur_token.type = "RETURN" THEN parse_return_statement(p)
    ELSE parse_exp_statement(p)

\* The loop of parse_block_statement.  It advances only after a statement
\* was parsed; when parse_statement returns None without having consumed a
\* token, the next iteration starts from the same tokens and does the same
\* again: the loop never exits.
RECURSIVE parse_block_statement_loop(_, _, _)
parse_block_statement_loop(p, token, statements) ==
    IF ~cur_token_is(p, "RBRACE") /\ ~cur_token_is(p, "EOF")
    THEN Then(parse_statement(p), LAMBDA r :
            IF Len(r.v) > 0
            THEN parse_block_statement_loop(Parser_next_token(r.p), token,
                                            Append(statements, r.v[1]))
            ELSE IF r.p.l.idx = p.l.idx THEN Hang(r.p)
            ELSE parse_block_statement_loop(r.p, token, statements))
    ELSE Ok(p, BlockStatement(token, statements))

parse_block_statement(p) ==
    parse_block_statement_loop(Parser_next_token(p), p.cur_token, <<>>)

parse_rec(fn, p, precedence) ==
    IF fn = "parse_expression" THEN parse_expression(p, precedence)
    ELSE parse_block_statement(p)

\* parse_program as one function: the statements of the Program
RECURSIVE parse_program_loop(_, _)
parse_program_loop(p, statements) ==
    IF p.cur_token.type # "EOF"
    THEN Then(parse_statement(p), LAMBDA stmt :
            parse_program_loop(Parser_next_token(stmt.p), statements \o stmt.v))
    ELSE Ok(p, statements)

parse_program(p) == parse_program_loop(p, <<>>)

-----------------------------------------------------------------------------
(* SpecParser: Parser::new on a token stream, then parse_program, one      *)
(* iteration of its loop at a time.                                        *)

\* the literal the lexer gives a token of a fixed spelling
FixedLiterals ==
    {<<"SEMICOLON", <<59>>>>, <<"LPAREN", <<40>>>>, <<"RPAREN", <<41>>>>,
     <<"COMMA", <<44>>>>, <<"PLUS", <<43>>>>, <<"LBRACE", <<123>>>>,
     <<"RBRACE", <<125>>>>, <<"LBRACKET", <<91>>>>, <<"RBRACKET", <<93>>>>,
     <<"MINUS", <<45>>>>, <<"SLASH", <<47>>>>, <<"ASTERISK", <<42>>>>,
     <<"LT", <<60>>>>, <<"GT", <<62>>>>, <<"COLON", <<58>>>>, <<"EOF", <<>>>>,
     <<"NOTEQ", <<33, 61>>>>, <<"BANG", <<33>>>>, <<"EQ", <<61, 61>>>>,
     <<"ASSIGN", <<61>>>>}
    \cup {<<kw[2], kw[1]>> : kw \in KEYWORDS}

Tok(type) == Token(type, (CHOOSE e \in FixedLiterals : e[1] = type)[2])

\* identifiers x, y, z, w; the integer 1; the string "s"; the illegal byte @
IdentX == Token("IDENT", <<120>>)
IdentY == Token("IDENT", <<121>>)
IdentZ == Token("IDENT", <<122>>)
IdentW == Token("IDENT", <<119>>)
IntOne == Token("INT", <<49>>)
StringS == Token("STRING", <<115>>)
IllegalAt == Token("ILLEGAL", <<54, 52>>)

\* the tokens the free part of a stream is drawn from
ParseAlphabet ==
    {IdentX, IntOne, StringS, IllegalAt}
    \cup {Tok(t) : t \in {"SEMICOLON", "LPAREN", "RPAREN", "LBRACE", "RBRACE",
                          "LBRACKET", "RBRACKET", "COMMA", "COLON", "LET",
                          "ASSIGN", "FUNCTION", "IF", "ELSE", "RETURN", "PLUS",
                          "ASTERISK", "MINUS", "BANG", "TRUE", "EOF"}}

\* what a stream may start with before its free part:
\*   nothing, `fn() {`, `if (x) {`, `x(`, `let x =`
StreamPrefixes ==
    {<<>>,
     <<Tok("FUNCTION"), Tok("LPAREN"), Tok("RPAREN"), Tok("LBRACE")>>,
     <<Tok("IF"), Tok("LPAREN"), IdentX, Tok("RPAREN"), Tok("LBRACE")>>,
     <<IdentX, Tok("LPAREN")>>,
     <<Tok("LET"), IdentX, Tok("ASSIGN")>>}

FreeStreams ==
    {pre \o s : pre \in StreamPrefixes, s \in SeqsUpTo(ParseAlphabet, MaxFreeToks)}

\* The operand forms of the precedence streams, for an identifier token id:
\*   id   -id   !id   id(w)   id[w]   -id(w)   !id[w]
OperandForms == {"id", "neg", "not", "call", "index", "negcall", "notindex"}

CallOf(id) == <<id, Tok("LPAREN"), IdentW, Tok("RPAREN")>>

IndexOf(id) == <<id, Tok("LBRACKET"), IdentW, Tok("RBRACKET")>>

OperandTokens(form, id) ==
    CASE form = "id" -> <<id>>
      [] form = "neg" -> <<Tok("MINUS"), id>>
      [] form = "not" -> <<Tok("BANG"), id>>
      [] form = "call" -> CallOf(id)
      [] form = "index" -> IndexOf(id)
      [] form = "negcall" -> <<Tok("MINUS")>> \o CallOf(id)
      [] form = "notindex" -> <<Tok("BANG")>> \o IndexOf(id)

\* `o1 a o2 b o3`: three operands around two binary operators
PrecedenceStream(f1, a, f2, b, f3) ==
    OperandTokens(f1, IdentX) \o <<Tok(a)>> \o OperandTokens(f2, IdentY)
        \o <<Tok(b)>> \o OperandTokens(f3, IdentZ)

PrecedenceStreams ==
    {PrecedenceStream(f1, a, f2, b, f3) :
        f1 \in OperandForms, a \in InfixTokens, f2 \in OperandForms,
        b \in InfixTokens, f3 \in OperandForms}

\* streams of several statements, of string literals and of nested
\* expressions:  x; y   x; -y   "a b"   let x = "s"; y   x(y)[1]; z
\*               if (x < y) { x } else { y }   fn(x, y) { x + y; }   [x, 1]
RoundTripStreams ==
    {<<IdentX, Tok("SEMICOLON"), IdentY>>,
     <<IdentX, Tok("SEMICOLON"), Tok("MINUS"), IdentY>>,
     <<Token("STRING", <<97, 32, 98>>)>>,
     <<Tok("LET"), IdentX, Tok("ASSIGN"), StringS, Tok("SEMICOLON"), IdentY>>,
     <<IdentX, Tok("LPAREN"), IdentY, Tok("RPAREN"), Tok("LBRACKET"), IntOne,
       Tok("RBRACKET"), Tok("SEMICOLON"), IdentZ>>,
     <<Tok("IF"), Tok("LPAREN"), IdentX, Tok("LT"), IdentY, Tok("RPAREN"),
       Tok("LBRACE"), IdentX, Tok("RBRACE"), Tok("ELSE"), Tok("LBRACE"), IdentY,
       Tok("RBRACE")>>,
     <<Tok("FUNCTION"), Tok("LPAREN"), IdentX, Tok("COMMA"), IdentY, Tok("RPAREN"),
       Tok("LBRACE"), IdentX, Tok("PLUS"), IdentY, Tok("SEMICOLON"), Tok("RBRACE")>>,
     <<Tok("LBRACKET"), IdentX, Tok("COMMA"), IntOne, Tok("RBRACKET")>>}

\* streams in which `(` and an expression are followed by a token that is
\* not `)`:   (1 2     (1 + 2     (1;     (1
UnclosedGroupStreams ==
    {<<Tok("LPAREN"), IntOne, Token("INT", <<50>>)>>,
     <<Tok("LPAREN"), IntOne, Tok("PLUS"), Token("INT", <<50>>)>>,
     <<Tok("LPAREN"), IntOne, Tok("SEMICOLON")>>,
     <<Tok("LPAREN"), IntOne>>}

ParInit ==
    /\ LexerIdle
    /\ EvalIdle
    /\ \E toks \in FreeStreams \cup PrecedenceStreams \cup RoundTripStreams
                        \cup UnclosedGroupStreams :
            ps = Parser_new(toks)
    /\ program = <<>>
    /\ pStatus = "parsing"
    /\ rendered = <<>>
    /\ rerendered = <<>>
    /\ rtStatus = "none"
    /\ ep = <<>>

\* one iteration of the loop of parse_program
ParseProgramStep ==
    /\ pStatus = "parsing"
    /\ ps.cur_token.type # "EOF"
    /\ LET r == parse_statement(ps)
       IN  /\ r.st = "ok"
           /\ program' = program \o r.v
           /\ ps' = Parser_next_token(r.p)
    /\ UNCHANGED <<pStatus, rendered, rerendered, rtStatus, ep>>
    /\ UNCHANGED <<lexVars, evalVars>>

\* parse_statement panics: parse_program does not return
ParsePanic ==
    /\ pStatus = "parsing"
    /\ ps.cur_token.type # "EOF"
    /\ LET r == parse_statement(ps)
       IN  /\ r.st = "panic"
           /\ ps' = r.p
    /\ pStatus' = "panic"
    /\ UNCHANGED <<program, rendered, rerendered, rtStatus, ep>>
    /\ UNCHANGED <<lexVars, evalVars>>

\* parse_statement is caught in a loop that never exits
ParseHang ==
    /\ pStatus = "parsing"
    /\ ps.cur_token.type # "EOF"
    /\ LET r == parse_statement(ps)
       IN  /\ r.st = "hang"
           /\ ps' = r.p
    /\ pStatus' = "hang"
    /\ UNCHANGED <<program, rendered, rerendered, rtStatus, ep>>
    /\ UNCHANGED <<lexVars, evalVars>>

\* the loop of parse_program exits: Some(program) is returned
ParseProgramReturn ==
    /\ pStatus = "parsing"
    /\ ps.cur_token.type = "EOF"
    /\ pStatus' = "done"
    /\ UNCHANGED <<ps, program, rendered, rerendered, rtStatus, ep>>
    /\ UNCHANGED <<lexVars, evalVars>>

\* program.string() on the Program parse_program returned
ProgramString ==
    /\ pStatus = "done"
    /\ rtStatus = "none"
    /\ rendered' = Program_string(program)
    /\ rtStatus' = IF \E i \in 1..Len(Program_string(program)) :
                        Program_string(program)[i] = NoString
                   THEN "nostring"
                   ELSE "rendered"
    /\ UNCHANGED <<ps, program, pStatus, rerendered, ep>>
    /\ UNCHANGED <<lexVars, evalVars>>

\* the rendering as a source text: Lexer::new, Parser::new, parse_program
\* and program.string() again
parse_tokens(t) ==
    IF t.status = "hang" THEN Hang(<<>>)
    ELSE Then(parse_program(Parser_new(t.toks)), LAMBDA r :
            Ok(r.p, Program_string(r.v)))

parse_string(input) == parse_tokens(tokenize(input))

ParseString ==
    /\ rtStatus = "rendered"
    /\ LET r == parse_string(rendered)
       IN  /\ rtStatus' = IF r.st = "ok" THEN "reparsed" ELSE r.st
           /\ rerendered' = r.v
    /\ UNCHANGED <<ps, program, pStatus, rendered, ep>>
    /\ UNCHANGED <<lexVars, evalVars>>

ParNext ==
    \/ ParseProgramStep
    \/ ParsePanic
    \/ ParseHang
    \/ ParseProgramReturn
    \/ ProgramString
    \/ ParseString

SpecParser == ParInit /\ [][ParNext]_vars

-----------------------------------------------------------------------------
(* SpecExpectPeek: expect_peek called on a parser that Parser::new made,   *)
(* with the kinds the parse functions ask for.                             *)

\* the kinds expect_peek is called with in parser.rs
ExpectedKinds ==
    {"IDENT", "ASSIGN", "COLON", "COMMA", "RBRACE", "RBRACKET", "LPAREN", "RPAREN",
     "LBRACE"}

ExpectInit ==
    /\ LexerIdle
    /\ EvalIdle
    /\ \E toks \in SeqsUpTo(ParseAlphabet, MaxFreeToks) : ps = Parser_new(toks)
    /\ program = <<>>
    /\ pStatus = "idle"
    /\ rendered = <<>>
    /\ rerendered = <<>>
    /\ rtStatus = "idle"
    /\ ep = [calls |-> 0]

\* one call of expect_peek
ExpectPeek ==
    /\ ep.calls < MaxExpectCalls
    /\ \E token \in ExpectedKinds :
        LET r == expect_peek(ps, token)
        IN  /\ ps' = r.p
            /\ ep' = [calls |-> ep.calls + 1, token |-> token, before |-> ps, ok |-> r.ok]
    /\ UNCHANGED <<program, pStatus, rendered, rerendered, rtStatus>>
    /\ UNCHANGED <<lexVars, evalVars>>

ExpectNext == ExpectPeek

SpecExpectPeek == ExpectInit /\ [][ExpectNext]_vars

-----------------------------------------------------------------------------
(* Objects (src/src/object.rs).  An Rc<RefCell<Environment>> is the index  *)
(* of the environment in the heap of the evaluator; every other object is  *)
(* a value, copied by clone().  Strings are sequences of bytes.            *)

Integer(value) == [type |-> "INTEGER", value |-> value]

Boolean(value) == [type |-> "BOOLEAN", value |-> value]

Null == [type |-> "NULL"]

StringLiteral(value) == [type |-> "STRING", value |-> value]

Return(value) == [type |-> "RETURN", value |-> value]

\* msg is the format string with its arguments
Error(msg) == [type |-> "ERROR", msg |-> msg]

Function(params, body, env) ==
    [type |-> "FUNCTION", params |-> params, body |-> body, env |-> env]

\* func is the name of the Rust function
BuiltInFunc(func) == [type |-> "BUILTINFUNC", func |-> func]

Array(elements) == [type |-> "ARRAY", elements |-> elements]

\* pairs is a function from HashKey to HashPair
HashObject(pairs) == [type |-> "HASH", pairs |-> pairs]

HashPair(key, value) == [key |-> key, value |-> value]

\* A u64 is kept as its four 16-bit limbs, most significant first.
\* `value as u64` of an i64: the same 64 bits, so a negative value v is
\* 2^64 + v.
i64_as_u64(value) ==
    IF value >= 0 THEN <<0, 0, value \div 65536, value % 65536>>
    ELSE <<65535, 65535, 32768 + ((value + 2147483647 + 1) \div 65536),
           (value + 2147483647 + 1) % 65536>>

\* DefaultHasher::new(), self.value.hash(&mut s), s.finish(): SipHash with
\* fixed keys, a function of the bytes alone.  The digest is not computed:
\* it is kept as a term over the bytes (two strings of the same digest are
\* not modelled).
DefaultHasher_finish(bytes) == <<"SipHash", bytes>>

hash_key_untyped(obj) ==
    CASE obj.type = "INTEGER" -> [type |-> "HASHKEY", value |-> i64_as_u64(obj.value)]
      [] obj.type = "BOOLEAN" ->
            [type |-> "HASHKEY", value |-> i64_as_u64(IF obj.value THEN 1 ELSE 0)]
      [] obj.type = "STRING" ->
            [type |-> "HASHKEY", value |-> DefaultHasher_finish(obj.value)]

\* hash_key of Integer, Boolean and StringLiteral: HashKey { type, value }
hash_key(obj) ==
    CASE obj.type = "INTEGER" -> [type |-> "INTEGER", value |-> i64_as_u64(obj.value)]
      [] obj.type = "BOOLEAN" ->
            [type |-> "BOOLEAN", value |-> i64_as_u64(IF obj.value THEN 1 ELSE 0)]
      [] obj.type = "STRING" ->
            [type |-> "STRING", value |-> DefaultHasher_finish(obj.value)]

\* inspect.  The rendering of a function (its parameters and the string()
\* of its body) and of a hash (in the iteration order of a HashMap) is kept
\* as the object itself.
RECURSIVE inspect(_)
inspect(obj) ==
    CASE obj.type = "INTEGER" -> i64_to_string(obj.value)
      [] obj.type = "BOOLEAN" ->
            IF obj.value THEN <<116, 114, 117, 101>> ELSE <<102, 97, 108, 115, 101>>
      [] obj.type = "NULL" -> <<110, 117, 108, 108>>
      [] obj.type = "STRING" -> obj.value
      [] obj.type = "RETURN" -> inspect(obj.value)
      [] obj.type = "ERROR" -> <<"Error: ", obj.msg>>
      [] obj.type = "ARRAY" ->
            <<91>> \o join([i \in 1..Len(obj.elements) |-> inspect(obj.elements[i])]) \o <<93>>
      [] obj.type = "BUILTINFUNC" -> <<"builtin function">>
      [] OTHER -> <<obj>>

-----------------------------------------------------------------------------
(* Environments (object.rs).  heap[i] is the Environment behind the i-th   *)
(* Rc that was created; store is a function from names to objects.        *)

Environment_new == [store |-> <<>>, outer |-> None]

\* an enclosed environment that is not linked to the outer one
enclosed_environment_no_outer(outer_env) == [store |-> <<>>, outer |-> None]

enclosed_environment(outer_env) == [store |-> <<>>, outer |-> Some(outer_env)]

\* Rc::new(RefCell::new(environment)): [heap, env]
Rc_new(heap, environment) == [heap |-> Append(heap, environment), env |-> Len(heap) + 1]

RECURSIVE Environment_get(_, _, _)
Environment_get(heap, env, name) ==
    IF name \in DOMAIN heap[env].store THEN Some(heap[env].store[name])
    ELSE IF heap[env].outer # None THEN Environment_get(heap, heap[env].outer[1], name)
    ELSE None

\* set on an Environment value: self.store.insert(name, obj.clone())
Environment_set(environment, name, obj) ==
    [environment EXCEPT !.store =
        [n \in DOMAIN environment.store \cup {name} |->
            IF n = name THEN obj ELSE environment.store[n]]]

-----------------------------------------------------------------------------
(* The evaluator's state and results.                                      *)
(*   heap   the environments created so far                                *)
(*   out    the lines println! has written                                 *)
(*   trace  what the evaluator did, in order:                              *)
(*            "exp"       eval_expression was entered (kind, env)          *)
(*            "error"     eval_expression returned the Error object val    *)
(*            "set"       Environment::set (env, name)                     *)
(*            "puts"      println! (line)                                  *)
(*            "returned"  a call of a user function returned (the heap     *)
(*                        before the call's environment was made, and      *)
(*                        after the body was evaluated)                    *)

Machine_new == [heap |-> <<>>, out |-> <<>>, trace |-> <<>>]

Log(m, event) == [m EXCEPT !.trace = Append(@, event)]

\* What a function of the evaluator hands back: the machine after it and
\* its value (st = "ok"), or the fact that it panicked.
Done(m, v) == [st |-> "ok", m |-> m, v |-> v]

Aborted(m) == [st |-> "panic", m |-> m, v |-> Null]

is_error(obj) == obj.type = "ERROR"

is_truthy(obj) ==
    CASE obj.type = "NULL" -> FALSE
      [] obj.type = "BOOLEAN" -> obj.value
      [] OTHER -> TRUE

\* Sequencing.  Bind(r, K) continues with K on the result r of a function
\* that returned and hands a panic on; Checked(r, K) is
\* `let x = ..; if is_error(&x) { return x; }` followed by K.
Bind(r, K(_)) == IF r.st # "ok" THEN r ELSE K(r)

Checked(r, K(_)) == IF r.st # "ok" \/ is_error(r.v) THEN r ELSE K(r)

-----------------------------------------------------------------------------
(* Builtins (object.rs).                                                   *)

BUILTINS ==
    {<<<<108, 101, 110>>, "monkey_len">>, <<<<102, 105, 114, 115, 116>>, "monkey_first">>,
     <<<<108, 97, 115, 116>>, "monkey_last">>, <<<<114, 101, 115, 116>>, "monkey_rest">>,
     <<<<112, 117, 115, 104>>, "monkey_push">>, <<<<112, 117, 116, 115>>, "monkey_puts">>}

wrong_number_of_arguments(got, want) ==
    Error(<<"wrong number of arguments. got={}, want={}", got, want>>)

monkey_len_kind_first(m, args) ==
    IF Len(args) > 0 /\ args[1].type \notin {"STRING", "INTEGER", "ARRAY"}
    THEN Aborted(m)
    ELSE IF Len(args) # 1 THEN Done(m, wrong_number_of_arguments(Len(args), 1))
    ELSE CASE args[1].type = "STRING" -> Done(m, Integer(Len(args[1].value)))
           [] args[1].type = "INTEGER" ->
                Done(m, Error(<<"argument to ", "len", " not supported, got INTEGER">>))
           [] args[1].type = "ARRAY" -> Done(m, Integer(Len(args[1].elements)))

monkey_len(m, args) ==
    IF Len(args) # 1 THEN Done(m, wrong_number_of_arguments(Len(args), 1))
    ELSE CASE args[1].type = "STRING" -> Done(m, Integer(Len(args[1].value)))
           [] args[1].type = "INTEGER" ->
                Done(m, Error(<<"argument to ", "len", " not supported, got INTEGER">>))
           [] args[1].type = "ARRAY" -> Done(m, Integer(Len(args[1].elements)))
           [] OTHER -> Aborted(m)

monkey_first(m, args) ==
    IF Len(args) # 1 THEN Done(m, wrong_number_of_arguments(Len(args), 1))
    ELSE IF args[1].type # "ARRAY" THEN Aborted(m)
    ELSE IF Len(args[1].elements) > 0 THEN Done(m, args[1].elements[1])
    ELSE Done(m, Null)

monkey_last(m, args) ==
    IF Len(args) # 1 THEN Done(m, wrong_number_of_arguments(Len(args), 1))
    ELSE IF args[1].type # "ARRAY" THEN Aborted(m)
    ELSE IF Len(args[1].elements) > 0
    THEN Done(m, args[1].elements[Len(args[1].elements)])
    ELSE Done(m, Null)

monkey_rest_drops_last(m, args) ==
    IF Len(args) # 1 THEN Done(m, wrong_number_of_arguments(Len(args), 1))
    ELSE IF args[1].type # "ARRAY" THEN Aborted(m)
    ELSE IF Len(args[1].elements) > 0
    THEN Done(m, Array(SubSeq(args[1].elements, 1, Len(args[1].elements) - 1)))
    ELSE Done(m, Null)

monkey_rest(m, args) ==
    IF Len(args) # 1 THEN Done(m, wrong_number_of_arguments(Len(args), 1))
    ELSE IF args[1].type # "ARRAY" THEN Aborted(m)
    ELSE IF Len(args[1].elements) > 0 THEN Done(m, Array(Tail(args[1].elements)))
    ELSE Done(m, Null)

monkey_push_in_front(m, args) ==
    IF Len(args) # 2 THEN Done(m, wrong_number_of_arguments(Len(args), 2))
    ELSE IF args[1].type # "ARRAY" THEN Aborted(m)
    ELSE Done(m, Array(<<args[2]>> \o args[1].elements))

monkey_push(m, args) ==
    IF Len(args) # 2 THEN Done(m, wrong_number_of_arguments(Len(args), 2))
    ELSE IF args[1].type # "ARRAY" THEN Aborted(m)
    ELSE Done(m, Array(Append(args[1].elements, args[2])))

RECURSIVE monkey_puts_loop(_, _)
monkey_puts_loop(m, args) ==
    IF Len(args) = 0 THEN m
    ELSE monkey_puts_loop(
            Log([m EXCEPT !.out = Append(@, inspect(args[1]))],
                [ev |-> "puts", line |-> inspect(args[1])]),
            Tail(args))

monkey_puts(m, args) == Done(monkey_puts_loop(m, args), Null)

\* (obj.func)(evaluated_args)
call_builtin(m, func, args) ==
    CASE func = "monkey_len" -> monkey_len(m, args)
      [] func = "monkey_first" -> monkey_first(m, args)
      [] func = "monkey_last" -> monkey_last(m, args)
      [] func = "monkey_rest" -> monkey_rest(m, args)
      [] func = "monkey_push" -> monkey_push(m, args)
      [] func = "monkey_puts" -> monkey_puts(m, args)

-----------------------------------------------------------------------------
(* The evaluator (src/src/eval.rs).  Integers stay far from the ends of    *)
(* i64 in the programs of the model, so that + - * never overflow.         *)

\* eval_expression and eval_block_statements call each other; eval_rec ties
\* that recursion: the other functions reach the two through
\* call_eval_expression and call_eval_block_statements.
RECURSIVE eval_rec(_, _, _, _)

call_eval_expression(m, exp, env) == eval_rec("eval_expression", m, exp, env)

call_eval_block_statements(m, block_stmt, env) ==
    eval_rec("eval_block_statements", m, block_stmt, env)

\* HashMap::insert
HashMap_insert(map, k, v) == [x \in DOMAIN map \cup {k} |-> IF x = k THEN v ELSE map[x]]

\* eval_identifier that looks in BUILTINS before the environment
eval_identifier_builtins_first(heap, ident, env) ==
    LET found == Environment_get(heap, env, ident.value)
    IN  IF \E b \in BUILTINS : b[1] = ident.value
        THEN BuiltInFunc((CHOOSE b \in BUILTINS : b[1] = ident.value)[2])
        ELSE IF found # None THEN found[1]
        ELSE Error(<<"identifier not found: {}", ident.value>>)

eval_identifier(heap, ident, env) ==
    LET found == Environment_get(heap, env, ident.value)
    IN  IF found # None THEN found[1]
        ELSE IF \E b \in BUILTINS : b[1] = ident.value
        THEN BuiltInFunc((CHOOSE b \in BUILTINS : b[1] = ident.value)[2])
        ELSE Error(<<"identifier not found: {}", ident.value>>)

eval_bang_operator_expression(object) ==
    CASE object.type = "BOOLEAN" -> Boolean(~object.value)
      [] object.type = "NULL" -> Boolean(TRUE)
      [] OTHER -> Boolean(FALSE)

eval_minus_operator_expression(object) ==
    IF object.type = "INTEGER" THEN Integer(0 - object.value)
    ELSE Error(<<"unknown operator -{:?}", object>>)

\* the operators are compared as bytes: "!" is <<33>>, "-" is <<45>>
eval_prefix_expression(operator, right) ==
    CASE operator = <<33>> -> eval_bang_operator_expression(right)
      [] operator = <<45>> -> eval_minus_operator_expression(right)
      [] OTHER -> Error(<<"unknown operator: {} {:?}", operator, right>>)

\* i64 `/` with a divisor other than 0: the quotient truncated toward zero
i64_div(a, b) ==
    LET abs(n) == IF n < 0 THEN 0 - n ELSE n
    IN  IF (a < 0) = (b < 0) THEN abs(a) \div abs(b) ELSE 0 - (abs(a) \div abs(b))

eval_infix_expression_string_eq(m, operator, left, right) ==
    CASE left.type = "INTEGER" /\ right.type = "INTEGER" ->
            CASE operator = <<43>> -> Done(m, Integer(left.value + right.value))
              [] operator = <<45>> -> Done(m, Integer(left.value - right.value))
              [] operator = <<42>> -> Done(m, Integer(left.value * right.value))
              [] operator = <<47>> ->
                    IF right.value = 0 THEN Aborted(m)
                    ELSE Done(m, Integer(i64_div(left.value, right.value)))
              [] operator = <<60>> -> Done(m, Boolean(left.value < right.value))
              [] operator = <<62>> -> Done(m, Boolean(left.value > right.value))
              [] operator = <<33, 61>> -> Done(m, Boolean(left.value # right.value))
              [] operator = <<61, 61>> -> Done(m, Boolean(left.value = right.value))
              [] OTHER -> Done(m, Error(<<"unknown operator {:?} {} {:?}", left, operator, right>>))
      [] left.type = "BOOLEAN" /\ right.type = "BOOLEAN" ->
            CASE operator = <<33, 61>> -> Done(m, Boolean(left.value # right.value))
              [] operator = <<61, 61>> -> Done(m, Boolean(left.value = right.value))
              [] OTHER -> Done(m, Error(<<"unknown operator {:?} {} {:?}", left, operator, right>>))
      [] left.type = "STRING" /\ right.type = "STRING" ->
            CASE operator = <<43>> -> Done(m, StringLiteral(left.value \o right.value))
              [] operator = <<61, 61>> -> Done(m, Boolean(left.value = right.value))
              [] OTHER -> Done(m, Error(<<"unknown operator {:?} {} {:?}", left, operator, right>>))
      [] OTHER -> Done(m, Error(<<"type mismatch {:?} {} {:?}", left, operator, right>>))

\* "+" <<43>>  "-" <<45>>  "*" <<42>>  "/" <<47>>  "<" <<60>>  ">" <<62>>
\* "!=" <<33, 61>>  "==" <<61, 61>>.  Division by zero panics.
eval_infix_expression(m, operator, left, right) ==
    CASE left.type = "INTEGER" /\ right.type = "INTEGER" ->
            CASE operator = <<43>> -> Done(m, Integer(left.value + right.value))
              [] operator = <<45>> -> Done(m, Integer(left.value - right.value))
              [] operator = <<42>> -> Done(m, Integer(left.value * right.value))
              [] operator = <<47>> ->
                    IF right.value = 0 THEN Aborted(m)
                    ELSE Done(m, Integer(i64_div(left.value, right.value)))
              [] operator = <<60>> -> Done(m, Boolean(left.value < right.value))
              [] operator = <<62>> -> Done(m, Boolean(left.value > right.value))
              [] operator = <<33, 61>> -> Done(m, Boolean(left.value # right.value))
              [] operator = <<61, 61>> -> Done(m, Boolean(left.value = right.value))
              [] OTHER -> Done(m, Error(<<"unknown operator {:?} {} {:?}", left, operator, right>>))
      [] left.type = "BOOLEAN" /\ right.type = "BOOLEAN" ->
            CASE operator = <<33, 61>> -> Done(m, Boolean(left.value # right.value))
              [] operator = <<61, 61>> -> Done(m, Boolean(left.value = right.value))
              [] OTHER -> Done(m, Error(<<"unknown operator {:?} {} {:?}", left, operator, right>>))
      [] left.type = "STRING" /\ right.type = "STRING" ->
            CASE operator = <<43>> -> Done(m, StringLiteral(left.value \o right.value))
              [] OTHER -> Done(m, Error(<<"unknown operator {:?} {} {:?}", left, operator, right>>))
      [] OTHER -> Done(m, Error(<<"type mismatch {:?} {} {:?}", left, operator, right>>))

eval_index_expression_one_based(m, left, index) ==
    IF left.type = "ARRAY" /\ index.type = "INTEGER"
    THEN IF index.value < 1 \/ index.value > Len(left.elements) THEN Done(m, Null)
         ELSE Done(m, left.elements[index.value])
    ELSE Aborted(m)

eval_index_expression(m, left, index) ==
    IF left.type = "ARRAY" /\ index.type = "INTEGER"
    THEN IF index.value < 0 \/ index.value >= Len(left.elements) THEN Done(m, Null)
         ELSE Done(m, left.elements[index.value + 1])
    ELSE Aborted(m)

\* the `for` loop of eval_expressions
RECURSIVE eval_expressions_loop(_, _, _, _)
eval_expressions_loop(m, exps, env, result) ==
    IF Len(exps) = 0 THEN Done(m, result)
    ELSE Bind(call_eval_expression(m, exps[1], env), LAMBDA evaluated :
            IF is_error(evaluated.v) THEN Done(evaluated.m, <<evaluated.v>>)
            ELSE eval_expressions_loop(evaluated.m, Tail(exps), env,
                                       Append(result, evaluated.v)))

\* eval_expressions that evaluates the last expression first
eval_expressions_right_to_left(m, exps, env) ==
    Bind(eval_expressions_loop(m, [i \in 1..Len(exps) |-> exps[Len(exps) + 1 - i]],
                               env, <<>>),
         LAMBDA r : Done(r.m, [i \in 1..Len(r.v) |-> r.v[Len(r.v) + 1 - i]]))

eval_expressions(m, exps, env) == eval_expressions_loop(m, exps, env, <<>>)

\* the `for` loop of eval_hash_literal
RECURSIVE eval_hash_literal_loop(_, _, _, _)
eval_hash_literal_loop(m, hash_lit_pairs, env, pairs) ==
    IF Len(hash_lit_pairs) = 0 THEN Done(m, HashObject(pairs))
    ELSE Checked(call_eval_expression(m, hash_lit_pairs[1][1], env), LAMBDA key :
            IF key.v.type \notin {"STRING", "INTEGER", "BOOLEAN"}
            THEN Done(key.m, Error(<<"unusable as hash key: {:?}", key.v>>))
            ELSE Checked(call_eval_expression(key.m, hash_lit_pairs[1][2], env),
                         LAMBDA value :
                            eval_hash_literal_loop(
                                value.m, Tail(hash_lit_pairs), env,
                                HashMap_insert(pairs, hash_key(key.v),
                                               HashPair(key.v, value.v)))))

eval_hash_literal(m, hash_lit, env) == eval_hash_literal_loop(m, hash_lit.pairs, env, <<>>)

\* the `for` loop of extend_fn_env, for i from the i-th parameter on
RECURSIVE extend_fn_env_loop(_, _, _, _)
extend_fn_env_loop(inner_env, params, args, i) ==
    IF i > Len(params) THEN inner_env
    ELSE extend_fn_env_loop(Environment_set(inner_env, params[i].value, args[i]),
                            params, args, i + 1)

\* extend_fn_env that binds the parameters in the environment the function
\* captured, and runs the body there
extend_fn_env_shared(m, function, args) ==
    IF Len(function.params) > Len(args) THEN Aborted(m)
    ELSE Done([m EXCEPT !.heap[function.env] =
                    extend_fn_env_loop(@, function.params, args, 1)],
              function.env)

\* extend_fn_env that binds the parameters without an argument to Null
extend_fn_env_padded(m, function, args) ==
    LET padded == [i \in 1..Len(function.params) |->
                        IF i <= Len(args) THEN args[i] ELSE Null]
        rc == Rc_new(m.heap,
                     extend_fn_env_loop(enclosed_environment(function.env),
                                        function.params, padded, 1))
    IN  Done([m EXCEPT !.heap = rc.heap], rc.env)

\* extend_fn_env; `args[i]` panics when there are fewer arguments than
\* parameters.  The value is the new Rc.
extend_fn_env(m, function, args) ==
    IF Len(function.params) > Len(args) THEN Aborted(m)
    ELSE LET rc == Rc_new(m.heap,
                          extend_fn_env_loop(enclosed_environment(function.env),
                                             function.params, args, 1))
         IN  Done([m EXCEPT !.heap = rc.heap], rc.env)

\* `match evaluated_function`: one Return wrapper is taken off
unwrap_return(obj) == IF obj.type = "RETURN" THEN obj.value ELSE obj

\* `match function` in eval_call_expression
apply_function(m, function, args) ==
    CASE function.type = "FUNCTION" ->
            Bind(extend_fn_env(m, function, args), LAMBDA extended_env :
            Bind(call_eval_block_statements(extended_env.m, function.body, extended_env.v),
                 LAMBDA evaluated_function :
                    Done(Log(evaluated_function.m,
                             [ev |-> "returned", before |-> m.heap,
                              after |-> evaluated_function.m.heap]),
                         unwrap_return(evaluated_function.v))))
      [] function.type = "BUILTINFUNC" -> call_builtin(m, function.func, args)
      [] OTHER -> Aborted(m)

eval_call_expression(m, call_exp, env) ==
    Checked(call_eval_expression(m, call_exp.function, env), LAMBDA function :
    Bind(eval_expressions(function.m, call_exp.args, env), LAMBDA evaluated_args :
        IF Len(evaluated_args.v) = 1 /\ is_error(evaluated_args.v[1])
        THEN Done(evaluated_args.m, evaluated_args.v[1])
        ELSE apply_function(evaluated_args.m, function.v, evaluated_args.v)))

eval_if_expression_zero_falsy(m, exp, env) ==
    Checked(call_eval_expression(m, exp.condition, env), LAMBDA condition :
        IF is_truthy(condition.v) /\ condition.v # Integer(0)
        THEN call_eval_block_statements(condition.m, exp.consequence, env)
        ELSE IF exp.alternative # None
        THEN call_eval_block_statements(condition.m, exp.alternative[1], env)
        ELSE Done(condition.m, Null))

eval_if_expression(m, exp, env) ==
    Checked(call_eval_expression(m, exp.condition, env), LAMBDA condition :
        IF is_truthy(condition.v)
        THEN call_eval_block_statements(condition.m, exp.consequence, env)
        ELSE IF exp.alternative # None
        THEN call_eval_block_statements(condition.m, exp.alternative[1], env)
        ELSE Done(condition.m, Null))

\* the FN arm that gives the function a copy of the environment as it is
\* when the literal is evaluated
eval_fn_literal_by_copy(m, exp, env) ==
    LET rc == Rc_new(m.heap, m.heap[env])
    IN  Done([m EXCEPT !.heap = rc.heap], Function(exp.parameters, exp.body, rc.env))

\* the FN arm of eval_expression: `env: Rc::clone(env)`
eval_fn_literal(m, exp, env) == Done(m, Function(exp.parameters, exp.body, env))

\* `match exp` in eval_expression
eval_expression_match(m, exp, env) ==
    CASE exp.kind = "INTEGER" -> Done(m, Integer(exp.value))
      [] exp.kind = "BOOLEAN" -> Done(m, Boolean(exp.bvalue))
      [] exp.kind = "IF" -> eval_if_expression(m, exp, env)
      [] exp.kind = "IDENTIFIER" -> Done(m, eval_identifier(m.heap, exp, env))
      [] exp.kind = "FN" -> eval_fn_literal(m, exp, env)
      [] exp.kind = "CALL" -> eval_call_expression(m, exp, env)
      [] exp.kind = "PREFIX" ->
            Checked(call_eval_expression(m, exp.right, env), LAMBDA right :
                Done(right.m, eval_prefix_expression(exp.operator, right.v)))
      [] exp.kind = "INFIX" ->
            Checked(call_eval_expression(m, exp.left, env), LAMBDA left :
            Checked(call_eval_expression(left.m, exp.right, env), LAMBDA right :
                eval_infix_expression(right.m, exp.operator, left.v, right.v)))
      [] exp.kind = "StringLiteral" -> Done(m, StringLiteral(exp.svalue))
      [] exp.kind = "ArrayLiteral" ->
            Bind(eval_expressions(m, exp.items, env), LAMBDA elements :
                IF Len(elements.v) = 1 /\ is_error(elements.v[1])
                THEN Done(elements.m, elements.v[1])
                ELSE Done(elements.m, Array(elements.v)))
      [] exp.kind = "IndexExpression" ->
            Checked(call_eval_expression(m, exp.left, env), LAMBDA left :
            Checked(call_eval_expression(left.m, exp.index, env), LAMBDA index :
                eval_index_expression(index.m, left.v, index.v)))
      [] exp.kind = "HashLiteral" -> eval_hash_literal(m, exp, env)
      [] OTHER -> Aborted(m)

\* the trace entry for an eval_expression that returned an Error object
TraceError(r) ==
    IF r.st = "ok" /\ r.v.type = "ERROR"
    THEN [r EXCEPT !.m = Log(@, [ev |-> "error", val |-> r.v])]
    ELSE r

eval_expression(m, exp, env) ==
    TraceError(eval_expression_match(Log(m, [ev |-> "exp", kind |-> exp.kind, env |-> env]),
                                     exp, env))

\* eval_let_statement without `if is_error(&val) { return Some(val); }`
eval_let_statement_unchecked(m, stmt, env) ==
    Bind(call_eval_expression(m, stmt.value, env), LAMBDA val :
        Done([val.m EXCEPT !.heap[env] = Environment_set(@, stmt.name.value, val.v)],
             None))

\* eval_let_statement hands an Error on as Some(val) and binds anything
\* else: env.borrow_mut().set(name, val)
eval_let_statement(m, stmt, env) ==
    Bind(call_eval_expression(m, stmt.value, env), LAMBDA val :
        IF is_error(val.v) THEN Done(val.m, Some(val.v))
        ELSE Done([val.m EXCEPT !.heap[env] = Environment_set(@, stmt.name.value, val.v)],
                  None))

eval_return_statement(m, stmt, env) ==
    Checked(call_eval_expression(m, stmt.return_value, env), LAMBDA val :
        Done(val.m, Return(val.v)))

eval_expression_statement(m, stmt, env) == call_eval_expression(m, stmt.expression, env)

\* Some(..) around the value of a function that returned
SomeOf(r) == IF r.st = "ok" THEN [r EXCEPT !.v = Some(@)] ELSE r

eval_statement(m, stmt, env) ==
    CASE stmt.kind = "LETSTATEMENT" -> eval_let_statement(m, stmt, env)
      [] stmt.kind = "RETURNSTATEMENT" -> SomeOf(eval_return_statement(m, stmt, env))
      [] stmt.kind = "EXPRESSIONSTATEMENT" -> SomeOf(eval_expression_statement(m, stmt, env))

\* the `for` loop of eval_block_statements
RECURSIVE eval_block_statements_loop(_, _, _, _)
eval_block_statements_loop(m, stmts, env, result) ==
    IF Len(stmts) = 0 THEN Done(m, result)
    ELSE Bind(eval_statement(m, stmts[1], env), LAMBDA r :
            IF Len(r.v) = 0 THEN eval_block_statements_loop(r.m, Tail(stmts), env, result)
            ELSE IF r.v[1].type \in {"RETURN", "ERROR"} THEN Done(r.m, r.v[1])
            ELSE eval_block_statements_loop(r.m, Tail(stmts), env, r.v[1]))

\* eval_block_statements that evaluates the block in an environment of
\* its own, enclosed in env
eval_block_statements_scoped(m, block_stmt, env) ==
    LET rc == Rc_new(m.heap, enclosed_environment(env))
    IN  eval_block_statements_loop([m EXCEPT !.heap = rc.heap],
                                   block_stmt.statements, rc.env, Null)

eval_block_statements(m, block_stmt, env) ==
    eval_block_statements_loop(m, block_stmt.statements, env, Null)

eval_rec(fn, m, node, env) ==
    IF fn = "eval_expression" THEN eval_expression(m, node, env)
    ELSE eval_block_statements(m, node, env)

-----------------------------------------------------------------------------
(* SpecEval: eval on one program, one iteration of the loop of             *)
(* eval_statements at a time.  The programs are written as the words of    *)
(* their source text and parsed by parse_program.                          *)

IdentF == Token("IDENT", <<102>>)
IdentG == Token("IDENT", <<103>>)
IdentH == Token("IDENT", <<104>>)
IdentQ == Token("IDENT", <<113>>)
IdentR == Token("IDENT", <<114>>)
IdentMk == Token("IDENT", <<109, 107>>)
IdentPuts == Token("IDENT", <<112, 117, 116, 115>>)

\* the token of a decimal integer
IntTok(n) == Token("INT", i64_to_string(n))

\* the token the lexer gives each word the programs are written in
WordTokens ==
    {<<"let", Tok("LET")>>, <<"fn", Tok("FUNCTION")>>, <<"if", Tok("IF")>>,
     <<"else", Tok("ELSE")>>, <<"return", Tok("RETURN")>>, <<"true", Tok("TRUE")>>,
     <<"false", Tok("FALSE")>>, <<"=", Tok("ASSIGN")>>, <<"+", Tok("PLUS")>>,
     <<"-", Tok("MINUS")>>, <<"*", Tok("ASTERISK")>>, <<"/", Tok("SLASH")>>,
     <<"!", Tok("BANG")>>, <<"<", Tok("LT")>>, <<">", Tok("GT")>>, <<"==", Tok("EQ")>>,
     <<"!=", Tok("NOTEQ")>>, <<"(", Tok("LPAREN")>>, <<")", Tok("RPAREN")>>,
     <<"{", Tok("LBRACE")>>, <<"}", Tok("RBRACE")>>, <<"[", Tok("LBRACKET")>>,
     <<"]", Tok("RBRACKET")>>, <<",", Tok("COMMA")>>, <<":", Tok("COLON")>>,
     <<";", Tok("SEMICOLON")>>,
     <<"x", IdentX>>, <<"y", IdentY>>, <<"f", IdentF>>, <<"g", IdentG>>, <<"h", IdentH>>,
     <<"q", IdentQ>>, <<"r", IdentR>>, <<"mk", IdentMk>>, <<"puts", IdentPuts>>,
     <<"0", IntTok(0)>>, <<"1", IntTok(1)>>, <<"2", IntTok(2)>>, <<"3", IntTok(3)>>,
     <<"4", IntTok(4)>>, <<"5", IntTok(5)>>, <<"7", IntTok(7)>>, <<"9", IntTok(9)>>,
     <<"10", IntTok(10)>>, <<"99", IntTok(99)>>, <<"6", IntTok(6)>>,
     <<"\"s\"", StringS>>, <<"\"t\"", Token("STRING", <<116>>)>>,
     <<"\"\"", Token("STRING", <<>>)>>, <<"\"1\"", Token("STRING", <<49>>)>>,
     <<"len", Token("IDENT", <<108, 101, 110>>)>>,
     <<"first", Token("IDENT", <<102, 105, 114, 115, 116>>)>>,
     <<"last", Token("IDENT", <<108, 97, 115, 116>>)>>,
     <<"rest", Token("IDENT", <<114, 101, 115, 116>>)>>,
     <<"push", Token("IDENT", <<112, 117, 115, 104>>)>>}

Word(w) == (CHOOSE e \in WordTokens : e[1] = w)[2]

Source(words) == [i \in 1..Len(words) |-> Word(words[i])]

\* the Program parse_program returns for the source, or <<"no program">>
\* when the parser does not return
ParseOf(words) ==
    LET r == parse_program(Parser_new(Source(words)))
    IN  IF r.st = "ok" THEN r.v ELSE <<"no program">>

RECURSIVE Flatten(_)
Flatten(seqs) == IF Len(seqs) = 0 THEN <<>> ELSE seqs[1] \o Flatten(Tail(seqs))

\* The statements the free part of a program is drawn from.  q is bound
\* nowhere; x, f and g are bound by the prefixes below.
FreeStatements ==
    {<<"q", ";">>,
     <<"puts", "(", "1", ")", ";">>,
     <<"let", "y", "=", "q", ";">>,
     <<"let", "x", "=", "5", ";">>,
     <<"x", ";">>,
     <<"return", "q", ";">>,
     <<"return", "7", ";">>,
     <<"[", "q", ",", "puts", "(", "2", ")", "]", ";">>,
     <<"puts", "(", "q", ",", "puts", "(", "2", ")", ")", ";">>,
     <<"q", "(", "puts", "(", "2", ")", ")", ";">>,
     <<"{", "1", ":", "q", ",", "2", ":", "puts", "(", "2", ")", "}", ";">>,
     <<"{", "f", ":", "puts", "(", "2", ")", "}", ";">>,
     <<"q", "+", "puts", "(", "2", ")", ";">>,
     <<"-", "true", "+", "puts", "(", "2", ")", ";">>,
     <<"[", "1", "]", "[", "q", "]", ";">>,
     <<"if", "(", "q", ")", "{", "puts", "(", "2", ")", "}", ";">>,
     <<"fn", "(", ")", "{", "q", ";", "puts", "(", "2", ")", ";", "}", "(", ")", ";">>,
     <<"f", "(", ")", ";">>,
     <<"g", "(", "2", ")", ";">>,
     <<"1", "/", "0", ";">>}

\* what a program may start with before its free part:
\*   nothing
\*   let x = 1; let f = fn() { x }; let g = fn(x) { let y = x; f() };
\*   let f = fn() { puts(3); q; puts(4) }; let g = fn(x) { f(); puts(5) };
EvalPrefixes ==
    {<<>>,
     <<"let", "x", "=", "1", ";",
       "let", "f", "=", "fn", "(", ")", "{", "x", "}", ";",
       "let", "g", "=", "fn", "(", "x", ")", "{",
            "let", "y", "=", "x", ";", "f", "(", ")", "}", ";">>,
     <<"let", "f", "=", "fn", "(", ")", "{",
            "puts", "(", "3", ")", ";", "q", ";", "puts", "(", "4", ")", "}", ";",
       "let", "g", "=", "fn", "(", "x", ")", "{",
            "f", "(", ")", ";", "puts", "(", "5", ")", "}", ";">>}

FreeSources ==
    {pre \o Flatten(ss) : pre \in EvalPrefixes, ss \in SeqsUpTo(FreeStatements, MaxFreeStmts)}

\* Programs with a `return` inside nested if-blocks.  The blocks:
\*   if (true) { if (true) { return 10; } puts(1); return 1; }
\*   if (true) { if (true) { if (true) { return 10; } puts(2); return 2; } puts(1); return 1; }
\*   if (false) { 0 } else { if (true) { return 10; } puts(1); return 1; }
\*   if (true) { let x = if (true) { return 10; }; puts(1); return 1; }
NestedReturnBlocks ==
    {<<"if", "(", "true", ")", "{",
            "if", "(", "true", ")", "{", "return", "10", ";", "}",
            "puts", "(", "1", ")", ";", "return", "1", ";", "}">>,
     <<"if", "(", "true", ")", "{",
            "if", "(", "true", ")", "{",
                "if", "(", "true", ")", "{", "return", "10", ";", "}",
                "puts", "(", "2", ")", ";", "return", "2", ";", "}",
            "puts", "(", "1", ")", ";", "return", "1", ";", "}">>,
     <<"if", "(", "false", ")", "{", "0", "}", "else", "{",
            "if", "(", "true", ")", "{", "return", "10", ";", "}",
            "puts", "(", "1", ")", ";", "return", "1", ";", "}">>,
     <<"if", "(", "true", ")", "{",
            "let", "x", "=", "if", "(", "true", ")", "{", "return", "10", ";", "}", ";",
            "puts", "(", "1", ")", ";", "return", "1", ";", "}">>}

\* a block at the top level, and in the body of a function that is called:
\*   BLOCK; puts(9); 99;
\*   let f = fn() { BLOCK; puts(9); 99 }; f();
NestedReturnSources ==
    {block \o <<";", "puts", "(", "9", ")", ";", "99", ";">> : block \in NestedReturnBlocks}
    \cup {<<"let", "f", "=", "fn", "(", ")", "{">> \o block
            \o <<";", "puts", "(", "9", ")", ";", "99", "}", ";", "f", "(", ")", ";">> :
          block \in NestedReturnBlocks}

\* Bodies of a function h that returns 1 through a `return`:
\*   return 1;
\*   if (true) { return 1; } 2
\*   let x = 1; return x; 2
\*   return if (true) { return 1; };
ReturningBodies ==
    {<<"return", "1", ";">>,
     <<"if", "(", "true", ")", "{", "return", "1", ";", "}", "2">>,
     <<"let", "x", "=", "1", ";", "return", "x", ";", "2">>,
     <<"return", "if", "(", "true", ")", "{", "return", "1", ";", "}", ";">>}

\* the callers of h, each with statements after the call:
\*   let r = h(); puts(9); 99;
\*   h(); puts(9); 99;
\*   let g = fn(x) { h(); puts(9); x }; g(99);
CallerTails ==
    {<<"let", "r", "=", "h", "(", ")", ";", "puts", "(", "9", ")", ";", "99", ";">>,
     <<"h", "(", ")", ";", "puts", "(", "9", ")", ";", "99", ";">>,
     <<"let", "g", "=", "fn", "(", "x", ")", "{",
            "h", "(", ")", ";", "puts", "(", "9", ")", ";", "x", "}", ";",
       "g", "(", "99", ")", ";">>}

CallReturnSources ==
    {<<"let", "h", "=", "fn", "(", ")", "{">> \o body \o <<"}", ";">> \o tail :
        body \in ReturningBodies, tail \in CallerTails}

\* Programs in which a function f reads x, which is not its parameter.
\* f is created where x is bound to a (1 or 4), at the top level or in a
\* call of mk, or at the top level before x is bound:
\*   let x = a; let f = fn() { x };
\*   let mk = fn(x) { fn() { x } }; let f = mk(a);
\*   let f = fn() { x };
ClosureCreations ==
    {<<<<"let", "x", "=", a, ";", "let", "f", "=", "fn", "(", ")", "{", "x", "}", ";">>,
       a>> : a \in {"1", "4"}}
    \cup {<<<<"let", "mk", "=", "fn", "(", "x", ")", "{",
                    "fn", "(", ")", "{", "x", "}", "}", ";",
              "let", "f", "=", "mk", "(", a, ")", ";">>,
            a>> : a \in {"1", "4"}}
    \cup {<<<<"let", "f", "=", "fn", "(", ")", "{", "x", "}", ";">>, "none">>}

\* after f was created, the top level binds x to 2, or leaves it alone
ClosureRebinds == {<<>>, <<"let", "x", "=", "2", ";">>}

\* f is called from the top level, or from a function g whose own
\* environment binds x to 3:
\*   f();
\*   let g = fn(x) { f() }; g(3);
\*   let g = fn() { let x = 3; f() }; g();
ClosureCallers ==
    {<<"f", "(", ")", ";">>,
     <<"let", "g", "=", "fn", "(", "x", ")", "{", "f", "(", ")", "}", ";",
       "g", "(", "3", ")", ";">>,
     <<"let", "g", "=", "fn", "(", ")", "{",
            "let", "x", "=", "3", ";", "f", "(", ")", "}", ";",
       "g", "(", ")", ";">>}

\* <<source, a>>: the source, and the word x was bound to where f was
\* created; x is bound before f is called
ClosureCases ==
    {<<cr[1][1] \o cr[2] \o caller, cr[1][2]>> :
        cr \in {z \in ClosureCreations \X ClosureRebinds : z[1][2] = "none" => z[2] # <<>>},
        caller \in ClosureCallers}

ClosureSources == {c[1] : c \in ClosureCases}

\* the words of a literal of a sequence of items: items joined by ","
RECURSIVE CommaWords(_)
CommaWords(items) ==
    IF Len(items) = 0 THEN <<>>
    ELSE IF Len(items) = 1 THEN items[1]
    ELSE items[1] \o <<",">> \o CommaWords(Tail(items))

\* the array literals [], [7], [7, 9], [7, 9, 5] by their length
ArrayItems == <<<<"7">>, <<"9">>, <<"5">>>>

ArrayWords(n) == <<"[">> \o CommaWords(SubSeq(ArrayItems, 1, n)) \o <<"]">>

\* the index expressions of the model with the integer each evaluates to:
\* -2 -1 0 1 2 3 4, 1 + 1, 1 - 2
IndexForms ==
    {<<<<"-", "2">>, -2>>, <<<<"-", "1">>, -1>>, <<<<"0">>, 0>>, <<<<"1">>, 1>>,
     <<<<"2">>, 2>>, <<<<"3">>, 3>>, <<<<"4">>, 4>>,
     <<<<"1", "+", "1">>, 2>>, <<<<"1", "-", "2">>, -1>>}

\* A[i], directly and through a name:  [7, 9][1];   let x = [7, 9]; x[1];
IndexCases ==
    {<<ArrayWords(n) \o <<"[">> \o ix[1] \o <<"]", ";">>, n, ix[2]>> :
        n \in 0..3, ix \in IndexForms}
    \cup {<<<<"let", "x", "=">> \o ArrayWords(n) \o <<";", "x", "[">> \o ix[1]
                \o <<"]", ";">>, n, ix[2]>> :
        n \in 0..3, ix \in IndexForms}

IndexSources == {c[1] : c \in IndexCases}

\* h[k] for a hash literal h: the source, and what is stored under k in h
\* ("value" v, "absent", or "unusable" when k is no Integer, Boolean or String)
HashIndexCases ==
    {<<<<"{", "1", ":", "7", ",", "2", ":", "9", "}", "[", "1", "]", ";">>, "value", 7>>,
     <<<<"{", "1", ":", "7", ",", "2", ":", "9", "}", "[", "2", "]", ";">>, "value", 9>>,
     <<<<"{", "1", ":", "7", ",", "2", ":", "9", "}", "[", "3", "]", ";">>, "absent", 0>>,
     <<<<"{", "true", ":", "7", "}", "[", "true", "]", ";">>, "value", 7>>,
     <<<<"{", "true", ":", "7", "}", "[", "false", "]", ";">>, "absent", 0>>,
     <<<<"{", "\"s\"", ":", "7", "}", "[", "\"s\"", "]", ";">>, "value", 7>>,
     <<<<"{", "\"s\"", ":", "7", "}", "[", "\"t\"", "]", ";">>, "absent", 0>>,
     <<<<"{", "\"s\"", ":", "7", "}", "[", "1", "]", ";">>, "absent", 0>>,
     <<<<"{", "\"s\"", "+", "\"t\"", ":", "6", "/", "2", "}",
         "[", "\"s\"", "+", "\"t\"", "]", ";">>, "value", 3>>,
     <<<<"{", "}", "[", "1", "]", ";">>, "absent", 0>>,
     <<<<"let", "x", "=", "{", "1", ":", "7", "}", ";", "x", "[", "1", "]", ";">>,
       "value", 7>>,
     <<<<"{", "1", ":", "7", "}", "[", "[", "1", "]", "]", ";">>, "unusable", 0>>,
     <<<<"{", "1", ":", "7", "}", "[", "fn", "(", ")", "{", "}", "]", ";">>, "unusable", 0>>}

HashIndexSources == {c[1] : c \in HashIndexCases}

\* The keys of the hash literals {k1: 7, k2: 9}: the words of the key, its
\* kind and its content:  1  2  -1  1 + 1  true  false  !true  "1"  "s"
HashKeyForms ==
    {<<<<"1">>, "INTEGER", 1>>, <<<<"2">>, "INTEGER", 2>>,
     <<<<"-", "1">>, "INTEGER", -1>>, <<<<"1", "+", "1">>, "INTEGER", 2>>,
     <<<<"0">>, "INTEGER", 0>>,
     <<<<"true">>, "BOOLEAN", TRUE>>, <<<<"false">>, "BOOLEAN", FALSE>>,
     <<<<"!", "true">>, "BOOLEAN", FALSE>>,
     <<<<"\"1\"">>, "STRING", <<49>>>>, <<<<"\"s\"">>, "STRING", <<115>>>>}

\* pairs of keys; of two strings only those of the same bytes
HashKeyPairs ==
    {kk \in HashKeyForms \X HashKeyForms :
        (kk[1][2] = "STRING" /\ kk[2][2] = "STRING") => kk[1][3] = kk[2][3]}

HashKeyWords(kk) ==
    <<"{">> \o kk[1][1] \o <<":", "7", ",">> \o kk[2][1] \o <<":", "9", "}", ";">>

HashKeySources == {HashKeyWords(kk) : kk \in HashKeyPairs}

\* The calls made on the array bound to x, by name:
\*   push(x, 3)   push(x, "s")   push(x, x)   rest(x)   push(rest(x), 3)
ArrayCalls ==
    {<<"push3", <<"push", "(", "x", ",", "3", ")">>>>,
     <<"pushs", <<"push", "(", "x", ",", "\"s\"", ")">>>>,
     <<"pushx", <<"push", "(", "x", ",", "x", ")">>>>,
     <<"rest", <<"rest", "(", "x", ")">>>>}

\* let x = A; let r = x; let f = fn() { x }; let y = <call>; f();
\* for the arrays A of length 0..3: <<source, length of A, name of the call>>
ArrayCallCases ==
    {<<<<"let", "x", "=">> \o ArrayWords(n) \o <<";",
         "let", "r", "=", "x", ";",
         "let", "f", "=", "fn", "(", ")", "{", "x", "}", ";",
         "let", "y", "=">> \o call[2] \o <<";", "f", "(", ")", ";">>,
       n, call[1]>> : n \in 0..3, call \in ArrayCalls}

ArrayCallSources == {c[1] : c \in ArrayCallCases}

\* an argument of each kind: Integer, String, Array, Boolean, Function,
\* Hash, Null (an if without alternative whose condition is false), builtin
ArgumentKinds ==
    {<<"1">>, <<"\"s\"">>, <<"[", "1", "]">>, <<"true">>,
     <<"fn", "(", ")", "{", "}">>, <<"{", "}">>,
     <<"if", "(", "false", ")", "{", "1", "}">>, <<"len">>}

\* the builtins that check their arity, with the arity each wants
BuiltinArities ==
    {<<"len", 1>>, <<"first", 1>>, <<"last", 1>>, <<"rest", 1>>, <<"push", 2>>}

\* b(a, .., a) with n arguments of one kind and b(a1, a2, a1) with arguments
\* of two kinds:  <<source, n, arity of b>>
BuiltinCalls ==
    {<<<<b[1], "(">> \o CommaWords([i \in 1..n |-> a]) \o <<")", ";">>, n, b[2]>> :
        b \in BuiltinArities, a \in ArgumentKinds, n \in 0..3}
    \cup {<<<<b[1], "(">> \o CommaWords(<<a1, a2, a1>>) \o <<")", ";">>, 3, b[2]>> :
        b \in BuiltinArities, a1 \in ArgumentKinds, a2 \in ArgumentKinds}

\* the calls with a number of arguments that is not the arity
ArityCases == {c \in BuiltinCalls : c[2] # c[3]}

AritySources == {c[1] : c \in ArityCases}

\* b(A) for b among rest, first, last and the arrays A of length 0..3, on the
\* literal and through a name:  <<source, b, length of A>>
\*   rest([7, 9]);   let x = [7, 9]; rest(x);
ArrayBuiltinCases ==
    {<<<<b, "(">> \o ArrayWords(n) \o <<")", ";">>, b, n>> :
        b \in {"rest", "first", "last"}, n \in 0..3}
    \cup {<<<<"let", "x", "=">> \o ArrayWords(n) \o <<";", b, "(", "x", ")", ";">>, b, n>> :
        b \in {"rest", "first", "last"}, n \in 0..3}

ArrayBuiltinSources == {c[1] : c \in ArrayBuiltinCases}

\* Conditions, with whether the value of each is Null or Boolean(false):
\*   0  1  ""  "s"  []  [1]  {}  fn() {}  len  true  1 < 2  !false     (no)
\*   false  1 > 2  !true  !0  if (false) { 1 }                         (yes)
Conditions ==
    {<<<<"0">>, FALSE>>, <<<<"1">>, FALSE>>, <<<<"\"\"">>, FALSE>>,
     <<<<"\"s\"">>, FALSE>>, <<<<"[", "]">>, FALSE>>, <<<<"[", "1", "]">>, FALSE>>,
     <<<<"{", "}">>, FALSE>>, <<<<"fn", "(", ")", "{", "}">>, FALSE>>,
     <<<<"len">>, FALSE>>, <<<<"true">>, FALSE>>, <<<<"1", "<", "2">>, FALSE>>,
     <<<<"!", "false">>, FALSE>>,
     <<<<"false">>, TRUE>>, <<<<"1", ">", "2">>, TRUE>>, <<<<"!", "true">>, TRUE>>,
     <<<<"!", "0">>, TRUE>>,
     <<<<"if", "(", "false", ")", "{", "1", "}">>, TRUE>>}

\* if (c) { puts(1); 7 } else { puts(2); 9 }  and  if (c) { puts(1); 7 }:
\* <<source, whether c is Null or false, whether there is an alternative>>
IfCases ==
    {<<<<"if", "(">> \o c[1] \o <<")", "{", "puts", "(", "1", ")", ";", "7", "}",
         "else", "{", "puts", "(", "2", ")", ";", "9", "}", ";">>, c[2], TRUE>> :
        c \in Conditions}
    \cup {<<<<"if", "(">> \o c[1] \o <<")", "{", "puts", "(", "1", ")", ";", "7", "}", ";">>,
            c[2], FALSE>> : c \in Conditions}

IfSources == {c[1] : c \in IfCases}

\* The operands of the infix expressions, each with its kind and, for a
\* string, its bytes.  Null is an if without alternative whose condition is
\* false.  No integer operand is 0: division by zero is not part of the table.
InfixOperands ==
    {<<<<"1">>, "INTEGER", <<>>>>, <<<<"2">>, "INTEGER", <<>>>>,
     <<<<"true">>, "BOOLEAN", <<>>>>, <<<<"false">>, "BOOLEAN", <<>>>>,
     <<<<"\"s\"">>, "STRING", <<115>>>>, <<<<"\"t\"">>, "STRING", <<116>>>>,
     <<<<"[", "1", "]">>, "ARRAY", <<>>>>,
     <<<<"fn", "(", ")", "{", "}">>, "FUNCTION", <<>>>>,
     <<<<"len">>, "BUILTIN", <<>>>>,
     <<<<"if", "(", "false", ")", "{", "1", "}">>, "NULL", <<>>>>}

InfixOperators == {"+", "-", "*", "/", "<", ">", "==", "!="}

\* l op r for every two operands and every operator: <<source, l, op, r>>
InfixCases ==
    {<<l[1] \o <<op>> \o r[1] \o <<";">>, l, op, r>> :
        l \in InfixOperands, op \in InfixOperators, r \in InfixOperands}

InfixSources == {c[1] : c \in InfixCases}

\* Programs that end by evaluating an identifier:
\*   <<source, the name, where the name is found>>
\* "env" when the environment chain binds it, "builtin", or "none".
\*   len;   first;   q;
\*   let len = 5; len;          let q = 5; q;
\*   let len = 5; fn() { len }();
\*   let f = fn(len) { len }; f(7);
\*   let f = fn(len) { len }; f(7); len;
\*   let f = fn() { let first = 1; first }; f(); first;
\*   let len = 5; let len = 7; len;
IdentifierCases ==
    {<<<<"len", ";">>, "len", "builtin">>,
     <<<<"first", ";">>, "first", "builtin">>,
     <<<<"q", ";">>, "q", "none">>,
     <<<<"let", "len", "=", "5", ";", "len", ";">>, "len", "env">>,
     <<<<"let", "q", "=", "5", ";", "q", ";">>, "q", "env">>,
     <<<<"let", "len", "=", "5", ";",
         "fn", "(", ")", "{", "len", "}", "(", ")", ";">>, "len", "env">>,
     <<<<"let", "f", "=", "fn", "(", "len", ")", "{", "len", "}", ";",
         "f", "(", "7", ")", ";">>, "len", "env">>,
     <<<<"let", "f", "=", "fn", "(", "len", ")", "{", "len", "}", ";",
         "f", "(", "7", ")", ";", "len", ";">>, "len", "builtin">>,
     <<<<"let", "f", "=", "fn", "(", ")", "{",
            "let", "first", "=", "1", ";", "first", "}", ";",
         "f", "(", ")", ";", "first", ";">>, "first", "builtin">>,
     <<<<"let", "len", "=", "5", ";", "let", "len", "=", "7", ";", "len", ";">>,
       "len", "env">>}

IdentifierSources == {c[1] : c \in IdentifierCases}

\* Calls whose callee and arguments write a line when they are evaluated,
\* and whose function writes one when it is applied; f is
\*   let f = fn(x, y) { puts(3); 7 };
\* <<source, what is evaluated to an Error first ("" when nothing is),
\*   the lines written>>
\*   f(puts(1), puts(2));
\*   fn() { puts(1); fn(x) { puts(3); 7 } }()(puts(2));
\*   q(puts(2));                      fn() { puts(1); q }()(puts(2));
\*   f(q, puts(2));                   f(puts(1), q, puts(2));
\*   puts(puts(1), q, puts(2));       push(puts(1), q);
\*   f(q, r);      q(r);              f(-true, q);
CallOrderCases ==
    LET f == <<"let", "f", "=", "fn", "(", "x", ",", "y", ")", "{",
                    "puts", "(", "3", ")", ";", "7", "}", ";">>
    IN  {<<f \o <<"f", "(", "puts", "(", "1", ")", ",", "puts", "(", "2", ")", ")", ";">>,
           "", <<"1", "2", "3">>>>,
         <<<<"fn", "(", ")", "{", "puts", "(", "1", ")", ";",
                "fn", "(", "x", ")", "{", "puts", "(", "3", ")", ";", "7", "}", "}",
             "(", ")", "(", "puts", "(", "2", ")", ")", ";">>,
           "", <<"1", "2", "3">>>>,
         <<<<"q", "(", "puts", "(", "2", ")", ")", ";">>, "q", <<>>>>,
         <<<<"fn", "(", ")", "{", "puts", "(", "1", ")", ";", "q", "}",
             "(", ")", "(", "puts", "(", "2", ")", ")", ";">>, "q", <<"1">>>>,
         <<f \o <<"f", "(", "q", ",", "puts", "(", "2", ")", ")", ";">>, "q", <<>>>>,
         <<f \o <<"f", "(", "puts", "(", "1", ")", ",", "q", ",",
                  "puts", "(", "2", ")", ")", ";">>, "q", <<"1">>>>,
         <<<<"puts", "(", "puts", "(", "1", ")", ",", "q", ",",
             "puts", "(", "2", ")", ")", ";">>, "q", <<"1">>>>,
         <<<<"push", "(", "puts", "(", "1", ")", ",", "q", ")", ";">>, "q", <<"1">>>>,
         <<f \o <<"f", "(", "q", ",", "r", ")", ";">>, "q", <<>>>>,
         <<<<"q", "(", "r", ")", ";">>, "q", <<>>>>,
         <<f \o <<"f", "(", "-", "true", ",", "q", ")", ";">>, "-", <<>>>>}

CallOrderSources == {c[1] : c \in CallOrderCases}

\* Programs that bind a name in an environment after a function literal
\* was evaluated there, and then call the function:  <<source, value>>
\*   let g = fn() { x }; let x = 5; g();
\*   let x = 1; let g = fn() { x }; let x = 5; g();
\*   let f = fn() { g() }; let g = fn() { 5 }; f();
\*   let mk = fn() { let g = fn() { x }; let x = 5; g() }; mk();
\*   let mk = fn() { fn() { x } }; let g = mk(); let x = 5; g();
\*   let f = fn(x) { if (x < 1) { 0 } else { 1 + f(x - 1) } }; f(1);
\*   let mk = fn() { let f = fn(x) { if (x < 1) { 0 } else { 1 + f(x - 1) } }; f }; mk()(1);
LateBindingCases ==
    LET f == <<"let", "f", "=", "fn", "(", "x", ")", "{",
                    "if", "(", "x", "<", "1", ")", "{", "0", "}",
                    "else", "{", "1", "+", "f", "(", "x", "-", "1", ")", "}", "}", ";">>
    IN  {<<<<"let", "g", "=", "fn", "(", ")", "{", "x", "}", ";",
             "let", "x", "=", "5", ";", "g", "(", ")", ";">>, "5">>,
         <<<<"let", "x", "=", "1", ";", "let", "g", "=", "fn", "(", ")", "{", "x", "}", ";",
             "let", "x", "=", "5", ";", "g", "(", ")", ";">>, "5">>,
         <<<<"let", "f", "=", "fn", "(", ")", "{", "g", "(", ")", "}", ";",
             "let", "g", "=", "fn", "(", ")", "{", "5", "}", ";", "f", "(", ")", ";">>, "5">>,
         <<<<"let", "mk", "=", "fn", "(", ")", "{",
                "let", "g", "=", "fn", "(", ")", "{", "x", "}", ";",
                "let", "x", "=", "5", ";", "g", "(", ")", "}", ";",
             "mk", "(", ")", ";">>, "5">>,
         <<<<"let", "mk", "=", "fn", "(", ")", "{", "fn", "(", ")", "{", "x", "}", "}", ";",
             "let", "g", "=", "mk", "(", ")", ";",
             "let", "x", "=", "5", ";", "g", "(", ")", ";">>, "5">>,
         <<f \o <<"f", "(", "1", ")", ";">>, "1">>,
         <<<<"let", "mk", "=", "fn", "(", ")", "{">> \o f
                \o <<"f", "}", ";", "mk", "(", ")", "(", "1", ")", ";">>, "1">>}

LateBindingSources == {c[1] : c \in LateBindingCases}

\* Programs in which the value of an if-expression whose block executes
\* `return 1` is the operand of a `return` or the value of a `let`:
\*   return if (true) { return 1; };
\*   let x = if (true) { return 1; }; return x;
\*   let x = if (true) { return 1; }; x;
\*   if (true) { return 1; }
ReturnOperandSources ==
    LET block == <<"if", "(", "true", ")", "{", "return", "1", ";", "}">>
    IN  {<<"return">> \o block \o <<";">>,
         <<"let", "x", "=">> \o block \o <<";", "return", "x", ";">>,
         <<"let", "x", "=">> \o block \o <<";", "x", ";">>,
         block}

\* Calls of user functions with k parameters and n arguments:
\*   <<source, k, n>>
\*   let f = fn(x, y) { [x, y] }; f(A)     A the first n of 1, 2, 3, 4
\*   let f = fn(x) { [x] }; f(A)
\*   let f = fn() { [] }; f(A)
ParameterWords == <<<<"x">>, <<"y">>>>

ArgumentWords == <<<<"1">>, <<"2">>, <<"3">>, <<"4">>>>

UserCallCases ==
    {<<<<"let", "f", "=", "fn", "(">> \o CommaWords(SubSeq(ParameterWords, 1, k))
            \o <<")", "{", "[">> \o CommaWords(SubSeq(ParameterWords, 1, k))
            \o <<"]", "}", ";", "f", "(">> \o CommaWords(SubSeq(ArgumentWords, 1, n))
            \o <<")", ";">>,
       k, n>> : k \in 0..2, n \in 0..4}

UserCallSources == {c[1] : c \in UserCallCases}

\* Programs that execute a `let` in a block of an if-expression:
\*   <<source, value>>
\*   if (true) { let x = 5; }; x;
\*   if (false) { 1 } else { let x = 5; }; x;
\*   let x = 1; if (true) { let x = 5; }; x;
\*   let x = 1; if (true) { if (true) { let x = 5; } }; x;
\*   let f = fn() { if (true) { let x = 5; }; x }; f();
\*   let x = 1; let f = fn() { if (true) { let x = 5; }; x }; f();
\*   let x = 1; let f = fn() { if (true) { let x = 5; }; x }; f(); x;
\*   let x = 1; let f = fn(x) { if (true) { let x = 5; }; x }; f(2);
BlockLetCases ==
    LET blk == <<"if", "(", "true", ")", "{", "let", "x", "=", "5", ";", "}">>
        x1 == <<"let", "x", "=", "1", ";">>
        f == <<"let", "f", "=", "fn", "(", ")", "{">> \o blk \o <<";", "x", "}", ";">>
    IN  {<<blk \o <<";", "x", ";">>, "5">>,
         <<<<"if", "(", "false", ")", "{", "1", "}", "else", "{",
             "let", "x", "=", "5", ";", "}", ";", "x", ";">>, "5">>,
         <<x1 \o blk \o <<";", "x", ";">>, "5">>,
         <<x1 \o <<"if", "(", "true", ")", "{">> \o blk \o <<"}", ";", "x", ";">>, "5">>,
         <<f \o <<"f", "(", ")", ";">>, "5">>,
         <<x1 \o f \o <<"f", "(", ")", ";">>, "5">>,
         <<x1 \o f \o <<"f", "(", ")", ";", "x", ";">>, "1">>,
         <<x1 \o <<"let", "f", "=", "fn", "(", "x", ")", "{">> \o blk
              \o <<";", "x", "}", ";", "f", "(", "2", ")", ";">>, "5">>}

BlockLetSources == {c[1] : c \in BlockLetCases}

\* the programs a session starts with
EvalSources ==
    FreeSources \cup NestedReturnSources \cup CallReturnSources \cup ClosureSources
        \cup IndexSources \cup HashIndexSources \cup HashKeySources
        \cup ArrayCallSources \cup AritySources \cup ArrayBuiltinSources
        \cup IfSources \cup InfixSources \cup IdentifierSources \cup CallOrderSources \cup LateBindingSources \cup ReturnOperandSources \cup UserCallSources \cup BlockLetSources

\* the top-level environment of eval: Rc::new(RefCell::new(Environment::new()))
TopEnv == 1

\* eval that goes on in the top-level environment of the eval before it
eval_in_last_env(m) ==
    IF m.heap = <<>> THEN [Machine_new EXCEPT !.heap = Rc_new(<<>>, Environment_new).heap]
    ELSE [Machine_new EXCEPT !.heap = m.heap]

\* eval up to eval_statements: `let env = Rc::new(RefCell::new(Environment::new()))`.
\* Nothing of the machine m of the eval before it can be reached from env;
\* out and trace are those of this eval.
eval(m) == [Machine_new EXCEPT !.heap = Rc_new(<<>>, Environment_new).heap]

\* The lines a session goes on with after its first program:
\*   x;     f();     len;     let x = 5; x;     let len = 1;
\*   let f = fn() { x }; f();
ReplLines ==
    {<<"x", ";">>,
     <<"f", "(", ")", ";">>,
     <<"len", ";">>,
     <<"let", "x", "=", "5", ";", "x", ";">>,
     <<"let", "len", "=", "1", ";">>,
     <<"let", "f", "=", "fn", "(", ")", "{", "x", "}", ";", "f", "(", ")", ";">>}

\* eval(program) up to the loop of eval_statements
EvalInit ==
    /\ LexerIdle
    /\ ParserIdle
    /\ \E src \in EvalSources : evProgram = ParseOf(src)
    /\ evPc = 1
    /\ evMachine = eval(Machine_new)
    /\ evResult = Null
    /\ evStatus = "running"
    /\ evSession = <<>>

\* an iteration of the loop of eval_statements after which the loop goes on
EvalStatementStep ==
    /\ evStatus = "running"
    /\ evPc <= Len(evProgram)
    /\ LET r == eval_statement(evMachine, evProgram[evPc], TopEnv)
       IN  /\ r.st = "ok"
           /\ Len(r.v) > 0 => r.v[1].type \notin {"RETURN", "ERROR"}
           /\ evMachine' = r.m
           /\ evResult' = IF Len(r.v) > 0 THEN r.v[1] ELSE evResult
    /\ evPc' = evPc + 1
    /\ UNCHANGED <<evProgram, evStatus, evSession>>
    /\ UNCHANGED <<lexVars, parVars>>

\* `Object::RETURN(o) => return *o.value`
EvalStatementsReturn ==
    /\ evStatus = "running"
    /\ evPc <= Len(evProgram)
    /\ LET r == eval_statement(evMachine, evProgram[evPc], TopEnv)
       IN  /\ r.st = "ok"
           /\ Len(r.v) > 0
           /\ r.v[1].type = "RETURN"
           /\ evMachine' = r.m
           /\ evResult' = r.v[1].value
    /\ evStatus' = "done"
    /\ UNCHANGED <<evProgram, evPc, evSession>>
    /\ UNCHANGED <<lexVars, parVars>>

\* `Object::ERROR(_) => return result`
EvalStatementsError ==
    /\ evStatus = "running"
    /\ evPc <= Len(evProgram)
    /\ LET r == eval_statement(evMachine, evProgram[evPc], TopEnv)
       IN  /\ r.st = "ok"
           /\ Len(r.v) > 0
           /\ r.v[1].type = "ERROR"
           /\ evMachine' = r.m
           /\ evResult' = r.v[1]
    /\ evStatus' = "done"
    /\ UNCHANGED <<evProgram, evPc, evSession>>
    /\ UNCHANGED <<lexVars, parVars>>

\* the loop of eval_statements ends: result is returned
EvalStatementsEnd ==
    /\ evStatus = "running"
    /\ evPc > Len(evProgram)
    /\ evStatus' = "done"
    /\ UNCHANGED <<evProgram, evPc, evMachine, evResult, evSession>>
    /\ UNCHANGED <<lexVars, parVars>>

\* the statement panics: eval does not return
EvalPanic ==
    /\ evStatus = "running"
    /\ evPc <= Len(evProgram)
    /\ LET r == eval_statement(evMachine, evProgram[evPc], TopEnv)
       IN  /\ r.st = "panic"
           /\ evMachine' = r.m
    /\ evStatus' = "panic"
    /\ UNCHANGED <<evProgram, evPc, evResult, evSession>>
    /\ UNCHANGED <<lexVars, parVars>>

\* the loop of start: eval has returned and its value was printed; the next
\* line is read and parsed, and eval is called on its program
ReplNextLine ==
    /\ evStatus = "done"
    /\ Len(evSession) + 1 < MaxLines
    /\ \E src \in ReplLines : evProgram' = ParseOf(src)
    /\ evSession' = Append(evSession, [program |-> evProgram, result |-> evResult])
    /\ evPc' = 1
    /\ evMachine' = eval(evMachine)
    /\ evResult' = Null
    /\ evStatus' = "running"
    /\ UNCHANGED <<lexVars, parVars>>

EvalNext ==
    \/ ReplNextLine
    \/ EvalStatementStep
    \/ EvalStatementsReturn
    \/ EvalStatementsError
    \/ EvalStatementsEnd
    \/ EvalPanic

SpecEval == EvalInit /\ [][EvalNext]_vars

-----------------------------------------------------------------------------
(* Claims about the evaluator.                                             *)

\* where the trace has its first Error object, or 0
C1_FirstError ==
    IF \E i \in 1..Len(evMachine.trace) : evMachine.trace[i].ev = "error"
    THEN CHOOSE i \in 1..Len(evMachine.trace) :
            /\ evMachine.trace[i].ev = "error"
            /\ \A j \in 1..(i - 1) : evMachine.trace[j].ev # "error"
    ELSE 0

\* C1 (error short-circuit): once the evaluation of an expression has
\* yielded an Error object, no expression is evaluated any more (no later
\* statement, operand, argument, element or pair) and puts writes nothing
\* more; every Error handed on after that is the same object, the loop of
\* eval_statements has returned, and what eval returns is that Error.
C1_ErrorShortCircuit ==
    C1_FirstError > 0 =>
        /\ \A j \in (C1_FirstError + 1)..Len(evMachine.trace) :
            /\ evMachine.trace[j].ev \notin {"exp", "puts"}
            /\ evMachine.trace[j].ev = "error" =>
                    evMachine.trace[j].val = evMachine.trace[C1_FirstError].val
        /\ evStatus = "done"
        /\ evResult = evMachine.trace[C1_FirstError].val

\* an Error came up in a call of f in a call of g, after puts wrote a line,
\* with a statement of the program and of both function bodies left over
C1_Witness ==
    /\ evStatus = "done"
    /\ C1_FirstError > 0
    /\ evResult.type = "ERROR"
    /\ evPc < Len(evProgram)
    /\ Len(evMachine.out) = 1
    /\ Len(evMachine.heap) = 3

C2_Programs == {ParseOf(src) : src \in NestedReturnSources}

\* C2 (return through nested if-blocks): a program, or a called function,
\* whose if-block executes `return 10` inside nested if-blocks yields 10,
\* and no statement after the return is evaluated (none of the puts that
\* follow it in the enclosing blocks writes a line).
C2_ReturnThroughNestedIf ==
    (evStatus = "done" /\ evProgram \in C2_Programs)
        => (evResult = Integer(10) /\ evMachine.out = <<>>)

C3_Programs == {ParseOf(src) : src \in CallReturnSources}

\* C3 (return ends only the call): when the body of h executes `return 1`,
\* the call h() evaluates to the Integer 1 (r is bound to it) and the
\* caller goes on: the puts after the call writes its line and the program
\* yields the value of its last statement, 99.
C3_ReturnEndsOnlyTheCall ==
    (evStatus = "done" /\ evProgram \in C3_Programs)
        => /\ evResult = Integer(99)
           /\ evMachine.out = <<IntTok(9).literal>>
           /\ IdentR.literal \in DOMAIN evMachine.heap[TopEnv].store =>
                evMachine.heap[TopEnv].store[IdentR.literal] = Integer(1)

\* the programs in which x was bound where f was created, each with the
\* Integer x was bound to there
C4_AtCreation ==
    {<<ParseOf(c[1]), Integer(parse_i64(Word(c[2]).literal).val)>> :
        c \in {cc \in ClosureCases : cc[2] # "none"}}

\* C4 as the claim states it: the x that f reads is the binding that was
\* visible where f was created.
C4_BindingAtCreation ==
    (evStatus = "done" /\ evProgram \in {c[1] : c \in C4_AtCreation})
        => <<evProgram, evResult>> \in C4_AtCreation

C4_Programs == {ParseOf(src) : src \in ClosureSources}

\* C4 (closure capture), amended: the x that f reads is what the
\* environment f captured where it was created binds x to when f is
\* called (a `let x` executed there after f was created is seen), wherever
\* f is called from and whatever the caller's environment binds x to.
C4_ClosureCapture ==
    (evStatus = "done" /\ evProgram \in C4_Programs)
        => /\ IdentF.literal \in DOMAIN evMachine.heap[TopEnv].store
           /\ Environment_get(evMachine.heap,
                              evMachine.heap[TopEnv].store[IdentF.literal].env,
                              IdentX.literal) = Some(evResult)
           /\ evResult # Integer(3)

\* f, made by mk(4), was called from g, whose environment binds x to 3,
\* after the top level bound x to 2
C4_Witness ==
    /\ evStatus = "done"
    /\ evProgram \in C4_Programs
    /\ evResult = Integer(4)
    /\ Len(evMachine.heap) = 4
    /\ Environment_get(evMachine.heap, TopEnv, IdentX.literal) = Some(Integer(2))
    /\ IdentX.literal \in DOMAIN evMachine.heap[3].store

\* C5 (an environment never mutates its parent): when a call of a user
\* function returns, every environment that existed before the call's own
\* environment was made (the captured one and the caller's among them) is
\* as it was: the parameters and every `let` of the call were written to
\* environments made for the call.
C5_CallLeavesEnvironments ==
    \A i \in 1..Len(evMachine.trace) :
        evMachine.trace[i].ev = "returned" =>
            /\ Len(evMachine.trace[i].after) > Len(evMachine.trace[i].before)
            /\ \A e \in 1..Len(evMachine.trace[i].before) :
                evMachine.trace[i].after[e] = evMachine.trace[i].before[e]

\* a call returned that bound its parameter x and executed `let y`, with x
\* bound in the environment the function captured
C5_Witness ==
    \E i \in 1..Len(evMachine.trace) :
        /\ evMachine.trace[i].ev = "returned"
        /\ LET before == evMachine.trace[i].before
               after == evMachine.trace[i].after
           IN  /\ IdentX.literal \in DOMAIN before[TopEnv].store
               /\ DOMAIN after[Len(before) + 1].store = {IdentX.literal, IdentY.literal}

\* every program A[i] of the model with the value the claim gives it: the
\* i-th element of A (from 0) when 0 <= i < n, Null otherwise
C13_Expected ==
    {<<ParseOf(c[1]),
       IF 0 <= c[3] /\ c[3] < c[2]
       THEN [type |-> "INTEGER", value |-> <<7, 9, 5>>[c[3] + 1]]
       ELSE [type |-> "NULL"]>> : c \in IndexCases}

C13_Programs == {e[1] : e \in C13_Expected}

\* C13 (array index bounds): for an array A of length n and an integer i,
\* A[i] evaluates to the i-th element when 0 <= i < n and to Null otherwise;
\* the evaluation never aborts and never yields an Error.
C13_ArrayIndexBounds ==
    (evStatus \in {"done", "panic"} /\ evProgram \in C13_Programs)
        => (evStatus = "done" /\ <<evProgram, evResult>> \in C13_Expected)

\* [7, 9, 5][-1] has yielded Null
C13_Witness ==
    /\ evStatus = "done"
    /\ evProgram = ParseOf(<<"[", "7", ",", "9", ",", "5", "]", "[", "-", "1", "]", ";">>)
    /\ evResult.type = "NULL"

C14_Expected == {<<ParseOf(c[1]), c[2], c[3]>> : c \in HashIndexCases}

C14_Programs == {e[1] : e \in C14_Expected}

\* C14 (hash indexing): for a hash h and a key k, h[k] evaluates to the
\* value stored under k when k is an Integer, Boolean or String present in h,
\* to Null when such a key is absent, and to an Error `unusable as hash key`
\* when k is of another kind.
C14_HashIndexing ==
    (evStatus \in {"done", "panic"} /\ evProgram \in C14_Programs)
        => /\ evStatus = "done"
           /\ \E e \in C14_Expected :
                /\ e[1] = evProgram
                /\ CASE e[2] = "value" -> evResult = [type |-> "INTEGER", value |-> e[3]]
                     [] e[2] = "absent" -> evResult = [type |-> "NULL"]
                     [] e[2] = "unusable" ->
                            /\ evResult.type = "ERROR"
                            /\ evResult.msg[1] = "unusable as hash key: {:?}"

\* every program {k1: 7, k2: 9} of the model with the pairs the claim gives
\* its hash: keys of the same kind and content share a slot (the later pair
\* replaces the earlier), any other two keys have a slot each
C15_Expected ==
    {<<ParseOf(HashKeyWords(kk)),
       IF kk[1][2] = kk[2][2] /\ kk[1][3] = kk[2][3]
       THEN {[key |-> [type |-> kk[2][2], value |-> kk[2][3]],
              value |-> [type |-> "INTEGER", value |-> 9]]}
       ELSE {[key |-> [type |-> kk[1][2], value |-> kk[1][3]],
              value |-> [type |-> "INTEGER", value |-> 7]],
             [key |-> [type |-> kk[2][2], value |-> kk[2][3]],
              value |-> [type |-> "INTEGER", value |-> 9]]}>> : kk \in HashKeyPairs}

C15_Programs == {e[1] : e \in C15_Expected}

\* C15 (hash key identity): hash_key depends only on kind and content: two
\* keys of the same kind and equal content get equal hash keys (one slot),
\* two distinct integers or the two booleans get distinct hash keys, and keys
\* of different kinds (the string "1", the integer 1, the boolean true) never
\* get equal hash keys.
C15_HashKeyIdentity ==
    (evStatus \in {"done", "panic"} /\ evProgram \in C15_Programs)
        => /\ evStatus = "done"
           /\ evResult.type = "HASH"
           /\ <<evProgram, {evResult.pairs[k] : k \in DOMAIN evResult.pairs}>>
                \in C15_Expected

\* {true: 7, 1: 9} has been evaluated: two pairs
C15_Witness ==
    /\ evStatus = "done"
    /\ evProgram = ParseOf(<<"{", "true", ":", "7", ",", "1", ":", "9", "}", ";">>)
    /\ Cardinality(DOMAIN evResult.pairs) = 2

\* the array objects [], [7], [7, 9], [7, 9, 5] by their length
C16_Array(n) ==
    [type |-> "ARRAY",
     elements |-> [i \in 1..n |-> [type |-> "INTEGER", value |-> <<7, 9, 5>>[i]]]]

\* what push(x, v) returns on the array A of length n
C16_Pushed(n, call) ==
    [type |-> "ARRAY",
     elements |->
        Append(C16_Array(n).elements,
               CASE call = "push3" -> [type |-> "INTEGER", value |-> 3]
                 [] call = "pushs" -> [type |-> "STRING", value |-> <<115>>]
                 [] call = "pushx" -> C16_Array(n))]

C16_Programs == {ParseOf(c[1]) : c \in ArrayCallCases}

C16_PushPrograms == {<<ParseOf(c[1]), c[2], c[3]>> : c \in {d \in ArrayCallCases : d[3] # "rest"}}

C16_Lengths == {<<ParseOf(c[1]), c[2]>> : c \in ArrayCallCases}

\* C16 (arrays are immutable from the language): after push(x, v) or
\* rest(x), the array bound to x, the array bound to another name r that
\* holds it and the array a closure f reads through x have the elements
\* they had before the call; push returns a new array of length len(x) + 1
\* whose last element is v.
C16_ArraysImmutable ==
    (evStatus \in {"done", "panic"} /\ evProgram \in C16_Programs)
        => /\ evStatus = "done"
           /\ \E n \in 0..3 :
                /\ <<evProgram, n>> \in C16_Lengths
                /\ evMachine.heap[TopEnv].store[IdentX.literal] = C16_Array(n)
                /\ evMachine.heap[TopEnv].store[IdentR.literal] = C16_Array(n)
                /\ evResult = C16_Array(n)
                /\ \A call \in {"push3", "pushs", "pushx"} :
                        <<evProgram, n, call>> \in C16_PushPrograms =>
                            evMachine.heap[TopEnv].store[IdentY.literal]
                                = C16_Pushed(n, call)

\* let x = [7, 9]; ...; let y = push(x, 3); f(); has been evaluated
C16_Witness ==
    /\ evStatus = "done"
    /\ <<evProgram, 2, "push3">> \in C16_PushPrograms
    /\ Len(evMachine.heap[TopEnv].store[IdentY.literal].elements) = 3
    /\ evResult = C16_Array(2)

\* every call of a builtin with n arguments, n not its arity m, with the
\* Error the claim gives it
C17_Expected ==
    {<<ParseOf(c[1]),
       [type |-> "ERROR",
        msg |-> <<"wrong number of arguments. got={}, want={}", c[2], c[3]>>]>> :
        c \in ArityCases}

C17_Programs == {e[1] : e \in C17_Expected}

\* C17 (builtin arity): len, first, last and rest called with n # 1
\* arguments and push called with n # 2 arguments return the Error
\* `wrong number of arguments. got=n, want=m` whatever the kinds of the
\* arguments, and never abort.
C17_BuiltinArity ==
    (evStatus \in {"done", "panic"} /\ evProgram \in C17_Programs)
        => (evStatus = "done" /\ <<evProgram, evResult>> \in C17_Expected)

\* first(true, fn() {}, true) has returned its Error
C17_Witness ==
    /\ evStatus = "done"
    /\ evProgram = ParseOf(<<"first", "(", "true", ",", "fn", "(", ")", "{", "}", ",",
                             "true", ")", ";">>)
    /\ evResult.type = "ERROR"
    /\ evResult.msg[2] = 3

\* every call rest(A), first(A), last(A) of the model with the value the
\* claim gives it, A being [7, 9, 5] cut to its length n
C18_Expected ==
    {<<ParseOf(c[1]),
       IF c[3] = 0 THEN [type |-> "NULL"]
       ELSE CASE c[2] = "first" -> [type |-> "INTEGER", value |-> 7]
              [] c[2] = "last" -> [type |-> "INTEGER", value |-> <<7, 9, 5>>[c[3]]]
              [] c[2] = "rest" ->
                    [type |-> "ARRAY",
                     elements |-> [i \in 1..(c[3] - 1) |->
                                    [type |-> "INTEGER", value |-> <<7, 9, 5>>[i + 1]]]]>> :
        c \in ArrayBuiltinCases}

C18_Programs == {e[1] : e \in C18_Expected}

\* C18 (rest, first, last on arrays): for an array A of length n >= 1,
\* rest(A) is an array of length n - 1 holding A[1..n) (the empty array when
\* n = 1), first(A) is A[0] and last(A) is A[n - 1]; for the empty array all
\* three return Null.
C18_RestFirstLast ==
    (evStatus \in {"done", "panic"} /\ evProgram \in C18_Programs)
        => (evStatus = "done" /\ <<evProgram, evResult>> \in C18_Expected)

\* rest([7, 9, 5]) has returned [9, 5]
C18_Witness ==
    /\ evStatus = "done"
    /\ evProgram = ParseOf(<<"rest", "(", "[", "7", ",", "9", ",", "5", "]", ")", ";">>)
    /\ evResult.type = "ARRAY"
    /\ Len(evResult.elements) = 2

\* every if-expression of the model with the value it yields and the lines
\* written by the branches that were evaluated, as the claim gives them
C19_Expected ==
    {<<ParseOf(c[1]),
       IF ~c[2] THEN [type |-> "INTEGER", value |-> 7]
       ELSE IF c[3] THEN [type |-> "INTEGER", value |-> 9]
       ELSE [type |-> "NULL"],
       IF ~c[2] THEN <<<<49>>>> ELSE IF c[3] THEN <<<<50>>>> ELSE <<>>>> :
        c \in IfCases}

C19_Programs == {e[1] : e \in C19_Expected}

\* C19 (truthiness in if-expressions): the consequence is evaluated exactly
\* when the value of the condition is neither Null nor Boolean(false)
\* (Integer 0, the empty string and the empty array are truthy); otherwise
\* the alternative is evaluated if there is one, else the result is Null;
\* never both branches are evaluated.
C19_Truthiness ==
    (evStatus \in {"done", "panic"} /\ evProgram \in C19_Programs)
        => (evStatus = "done" /\ <<evProgram, evResult, evMachine.out>> \in C19_Expected)

\* if (0) { puts(1); 7 } else { puts(2); 9 } has yielded 7
C19_Witness ==
    /\ evStatus = "done"
    /\ evProgram = ParseOf(<<"if", "(", "0", ")", "{", "puts", "(", "1", ")", ";", "7", "}",
                             "else", "{", "puts", "(", "2", ")", ";", "9", "}", ";">>)
    /\ evResult = [type |-> "INTEGER", value |-> 7]
    /\ evMachine.out = <<<<49>>>>

\* The typing table of the claim: what `l op r` yields, by the kinds of l
\* and r.  "mismatch" and "undefined" are Errors.
C20_Table(l, op, r) ==
    IF l[2] # r[2] \/ l[2] \notin {"INTEGER", "BOOLEAN", "STRING"} THEN "mismatch"
    ELSE IF l[2] = "BOOLEAN" THEN (IF op \in {"==", "!="} THEN "BOOLEAN" ELSE "undefined")
    ELSE IF l[2] = "STRING" THEN (IF op = "+" THEN "STRING" ELSE "undefined")
    ELSE IF op \in {"+", "-", "*", "/"} THEN "INTEGER"
    ELSE "BOOLEAN"

C20_Expected ==
    {<<ParseOf(c[1]), C20_Table(c[2], c[3], c[4]), c[2][3] \o c[4][3]>> : c \in InfixCases}

C20_Programs == {e[1] : e \in C20_Expected}

C21_Function(words) ==
    LET exp == ParseOf(words \o <<";">>)[1].expression
    IN  Function(exp.parameters, exp.body, TopEnv)

\* the store that binds each name of `names` to the object beside it
C21_Store(bindings) ==
    [n \in {b[1] : b \in bindings} |-> (CHOOSE b \in bindings : b[1] = n)[2]]

\* every program of IdentifierCases with the value its last identifier has
\* and the stores of the environments after it, in the order the
\* environments were made:
\*   <<program, value, stores>>
C21_Expected ==
    LET len == Word("len").literal
        first == Word("first").literal
        q == Word("q").literal
        f == Word("f").literal
        fnLen == C21_Function(<<"fn", "(", "len", ")", "{", "len", "}">>)
        fnFirst == C21_Function(<<"fn", "(", ")", "{",
                                  "let", "first", "=", "1", ";", "first", "}">>)
    IN  {<<ParseOf(<<"len", ";">>), BuiltInFunc("monkey_len"), <<C21_Store({})>>>>,
         <<ParseOf(<<"first", ";">>), BuiltInFunc("monkey_first"), <<C21_Store({})>>>>,
         <<ParseOf(<<"q", ";">>), Error(<<"identifier not found: {}", q>>),
           <<C21_Store({})>>>>,
         <<ParseOf(<<"let", "len", "=", "5", ";", "len", ";">>), Integer(5),
           <<C21_Store({<<len, Integer(5)>>})>>>>,
         <<ParseOf(<<"let", "q", "=", "5", ";", "q", ";">>), Integer(5),
           <<C21_Store({<<q, Integer(5)>>})>>>>,
         <<ParseOf(<<"let", "len", "=", "5", ";",
                     "fn", "(", ")", "{", "len", "}", "(", ")", ";">>), Integer(5),
           <<C21_Store({<<len, Integer(5)>>}), C21_Store({})>>>>,
         <<ParseOf(<<"let", "f", "=", "fn", "(", "len", ")", "{", "len", "}", ";",
                     "f", "(", "7", ")", ";">>), Integer(7),
           <<C21_Store({<<f, fnLen>>}), C21_Store({<<len, Integer(7)>>})>>>>,
         <<ParseOf(<<"let", "f", "=", "fn", "(", "len", ")", "{", "len", "}", ";",
                     "f", "(", "7", ")", ";", "len", ";">>), BuiltInFunc("monkey_len"),
           <<C21_Store({<<f, fnLen>>}), C21_Store({<<len, Integer(7)>>})>>>>,
         <<ParseOf(<<"let", "f", "=", "fn", "(", ")", "{",
                        "let", "first", "=", "1", ";", "first", "}", ";",
                     "f", "(", ")", ";", "first", ";">>), BuiltInFunc("monkey_first"),
           <<C21_Store({<<f, fnFirst>>}), C21_Store({<<first, Integer(1)>>})>>>>,
         <<ParseOf(<<"let", "len", "=", "5", ";", "let", "len", "=", "7", ";",
                     "len", ";">>), Integer(7),
           <<C21_Store({<<len, Integer(7)>>})>>>>}

C21_Programs == {ParseOf(src) : src \in IdentifierSources}

\* C21 (identifier resolution order): an identifier evaluates to what the
\* environment chain binds it to when it binds it (a `let len` shadows the
\* builtin len, a parameter named len does so in the call only), otherwise
\* to the builtin of that name, otherwise to the Error
\* `identifier not found: <name>`; and the environments hold after the
\* lookup what the lets and the calls put there, nothing else.
C21_IdentifierResolution ==
    (evStatus \in {"done", "panic"} /\ evProgram \in C21_Programs)
        => /\ evStatus = "done"
           /\ <<evProgram, evResult,
                [i \in 1..Len(evMachine.heap) |-> evMachine.heap[i].store]>> \in C21_Expected

\* `let len = 5; len;` has yielded 5, not the builtin
C21_Witness ==
    /\ evStatus = "done"
    /\ evProgram = ParseOf(<<"let", "len", "=", "5", ";", "len", ";">>)
    /\ evResult = Integer(5)
    /\ evMachine.heap[TopEnv].store[Word("len").literal] = Integer(5)

\* every program of CallOrderCases with its value and the lines written:
\* 7 when the function was applied, otherwise the Error that came first
C22_Expected ==
    {<<ParseOf(c[1]),
       CASE c[2] = "" -> Integer(7)
         [] c[2] = "-" -> Error(<<"unknown operator -{:?}", Boolean(TRUE)>>)
         [] OTHER -> Error(<<"identifier not found: {}", Word(c[2]).literal>>),
       [i \in 1..Len(c[3]) |-> Word(c[3][i]).literal]>> : c \in CallOrderCases}

C22_Programs == {e[1] : e \in C22_Expected}

\* C22 (call evaluation order): the callee is evaluated first, then the
\* arguments from left to right, then the function is applied (the lines
\* come out in that order); when the callee or an argument evaluates to an
\* Error, nothing after it is evaluated (no later argument writes its
\* line), neither the body nor the builtin is applied, and the call yields
\* that first Error.
C22_CallEvaluationOrder ==
    (evStatus \in {"done", "panic"} /\ evProgram \in C22_Programs)
        => /\ evStatus = "done"
           /\ <<evProgram, evResult, evMachine.out>> \in C22_Expected

\* f(puts(1), q, puts(2)) wrote the line of its first argument only and
\* yielded the Error of the second
C22_Witness ==
    /\ evStatus = "done"
    /\ evProgram \in C22_Programs
    /\ Len(evProgram) = 2
    /\ Len(evProgram[2].expression.args) = 3
    /\ evMachine.out = <<IntTok(1).literal>>
    /\ evResult = Error(<<"identifier not found: {}", IdentQ.literal>>)

\* every line of ReplLines with what eval returns for it when nothing was
\* evaluated before it
C24_Expected ==
    {<<ParseOf(<<"x", ";">>), Error(<<"identifier not found: {}", IdentX.literal>>)>>,
     <<ParseOf(<<"f", "(", ")", ";">>),
       Error(<<"identifier not found: {}", IdentF.literal>>)>>,
     <<ParseOf(<<"len", ";">>), BuiltInFunc("monkey_len")>>,
     <<ParseOf(<<"let", "x", "=", "5", ";", "x", ";">>), Integer(5)>>,
     <<ParseOf(<<"let", "len", "=", "1", ";">>), Null>>,
     <<ParseOf(<<"let", "f", "=", "fn", "(", ")", "{", "x", "}", ";", "f", "(", ")", ";">>),
       Error(<<"identifier not found: {}", IdentX.literal>>)>>}

C24_Programs == {ParseOf(src) : src \in ReplLines}

\* C24 (fresh environment per evaluation): every eval starts in a new
\* top-level environment that binds nothing and is the only environment,
\* and what eval returns for a program is what it returns for it when
\* nothing was evaluated before, whatever the programs evaluated before it
\* have bound (x, f, len among them).
C24_FreshEnvironment ==
    /\ (evStatus = "running" /\ evPc = 1)
            => evMachine.heap = <<Environment_new>>
    /\ (evStatus \in {"done", "panic"} /\ evProgram \in C24_Programs)
            => (evStatus = "done" /\ <<evProgram, evResult>> \in C24_Expected)

\* after a program that bound x to 1 and f to a function, the program `x;`
\* has yielded the Error `identifier not found: x`
C24_Witness ==
    /\ evStatus = "done"
    /\ Len(evSession) = 1
    /\ \E i \in 1..Len(evSession[1].program) :
            /\ evSession[1].program[i].kind = "LETSTATEMENT"
            /\ evSession[1].program[i].name.value = IdentX.literal
    /\ evSession[1].result.type \notin {"ERROR", "NULL"}
    /\ evProgram = ParseOf(<<"x", ";">>)
    /\ evResult = Error(<<"identifier not found: {}", IdentX.literal>>)

C25_Expected ==
    {<<ParseOf(c[1]), Integer(parse_i64(Word(c[2]).literal).val)>> : c \in LateBindingCases}

C25_Programs == {e[1] : e \in C25_Expected}

\* C25 (closures share the defining environment): a name bound by a `let`
\* in an environment after a function literal was evaluated there is what
\* the body of the function reads on a later call: g reads the x bound
\* after g was made (5, also when x was 1 before), f calls the g bound
\* after f, and a function bound by `let f` calls itself by that name
\* (f(1) calls f(0) and yields 1), at the top level and in the
\* environment of a call.
C25_SharedEnvironment ==
    (evStatus \in {"done", "panic"} /\ evProgram \in C25_Programs)
        => /\ evStatus = "done"
           /\ <<evProgram, evResult>> \in C25_Expected

\* `let g = fn() { x }; let x = 5; g();` has yielded 5
C25_Witness ==
    /\ evStatus = "done"
    /\ evProgram = ParseOf(<<"let", "g", "=", "fn", "(", ")", "{", "x", "}", ";",
                             "let", "x", "=", "5", ";", "g", "(", ")", ";">>)
    /\ evResult = Integer(5)
    /\ Len(evMachine.heap) = 2
    /\ evMachine.heap[TopEnv].store[IdentG.literal].env = TopEnv

\* C28 (no Return wrapper leaves eval): whatever the program, the object
\* eval returns is not of kind RETURN.
C28_NoReturnAtTopLevel == evStatus = "done" => evResult.type # "RETURN"

\* the programs of UserCallCases with k and n
C29_Cases == {<<ParseOf(c[1]), c[2], c[3]>> : c \in UserCallCases}

C29_Programs == {c[1] : c \in C29_Cases}

\* the Integers 1..k: what [x, y] is when the parameters are bound to the
\* first k arguments
C29_FirstArguments(k) == Array([i \in 1..k |-> Integer(i)])

\* C29 (parameters and arguments): a call of a function of k parameters
\* with n arguments, n >= k, returns with the parameters bound to the
\* first k arguments in order, and the environment of the call binds the
\* k parameters and nothing else; with n < k the evaluator aborts: eval
\* does not return, no Error object is produced.
C29_ParameterBinding ==
    (evStatus \in {"done", "panic"} /\ evProgram \in C29_Programs)
        => LET c == CHOOSE c \in C29_Cases : c[1] = evProgram
           IN  IF c[3] >= c[2]
               THEN /\ evStatus = "done"
                    /\ evResult = C29_FirstArguments(c[2])
                    /\ Len(evMachine.heap) = 2
                    /\ DOMAIN evMachine.heap[2].store
                            = {Word(ParameterWords[i][1]).literal : i \in 1..c[2]}
               ELSE /\ evStatus = "panic"
                    /\ evResult = Null

\* f of the parameters x, y was called with 1, 2, 3, 4 and returned [1, 2]
C29_Witness ==
    /\ evStatus = "done"
    /\ evProgram \in C29_Programs
    /\ Len(evProgram[2].expression.args) = 4
    /\ evResult = Array(<<Integer(1), Integer(2)>>)
    /\ DOMAIN evMachine.heap[2].store = {IdentX.literal, IdentY.literal}

C30_Expected ==
    {<<ParseOf(c[1]), Integer(parse_i64(Word(c[2]).literal).val)>> : c \in BlockLetCases}

C30_Programs == {e[1] : e \in C30_Expected}

\* C30 (blocks open no scope): a `let x = 5` executed in a block of an
\* if-expression binds x in the environment the if-expression is
\* evaluated in: the statement after the if-expression reads 5, also when
\* x was 1 there before; in the body of a function it is the environment
\* of the call that then binds x (to 5, also over the parameter x), and the
\* x of the top level stays 1.  No environment is made for a block.
C30_BlocksOpenNoScope ==
    (evStatus \in {"done", "panic"} /\ evProgram \in C30_Programs)
        => /\ evStatus = "done"
           /\ <<evProgram, evResult>> \in C30_Expected
           /\ Len(evMachine.heap) <= 2
           /\ IF Len(evMachine.heap) = 1
              THEN evMachine.heap[TopEnv].store[IdentX.literal] = Integer(5)
              ELSE /\ evMachine.heap[2].store[IdentX.literal] = Integer(5)
                   /\ IdentX.literal \in DOMAIN evMachine.heap[TopEnv].store
                        => evMachine.heap[TopEnv].store[IdentX.literal] = Integer(1)

\* `let x = 1; if (true) { let x = 5; }; x;` has yielded 5
C30_Witness ==
    /\ evStatus = "done"
    /\ evProgram = ParseOf(<<"let", "x", "=", "1", ";",
                             "if", "(", "true", ")", "{", "let", "x", "=", "5", ";", "}",
                             ";", "x", ";">>)
    /\ evResult = Integer(5)
    /\ Len(evMachine.heap) = 1
    /\ evMachine.heap[TopEnv].store[IdentX.literal] = Integer(5)

-----------------------------------------------------------------------------
(* Claims about the parser.                                                *)

\* C6 (parser liveness): parse_program terminates on every token stream:
\* no iteration of the program loop or of the block-statement loop leaves
\* the parser where it was, repeating for ever.
C6_ParserTerminates == pStatus # "hang"

\* C7 (parse errors never throw): on every token stream parse_program
\* returns a program and reports malformed input through the error list
\* only; it never aborts.
C7_ParseErrorsNeverThrow == pStatus # "panic"

\* The ladder of the binary operators, lowest first:
\* EQUALS < LESSGREATER < SUM < PRODUCT.
C10_Ladder == <<{"EQ", "NOTEQ"}, {"LT", "GT"}, {"PLUS", "MINUS"}, {"SLASH", "ASTERISK"}>>

C10_Prec(op) == CHOOSE i \in 1..Len(C10_Ladder) : op \in C10_Ladder[i]

\* The tree an operand form stands for: the prefix operator applies to the
\* whole call or index expression.
C10_Operand(form, id) ==
    LET call == CallExpression(Tok("LPAREN"), Identifier(id), <<Identifier(IdentW)>>)
        index == IndexExpression(Tok("LBRACKET"), Identifier(id), Identifier(IdentW))
    IN  CASE form = "id" -> Identifier(id)
          [] form = "neg" -> PrefixExpression(Tok("MINUS"), Identifier(id))
          [] form = "not" -> PrefixExpression(Tok("BANG"), Identifier(id))
          [] form = "call" -> call
          [] form = "index" -> index
          [] form = "negcall" -> PrefixExpression(Tok("MINUS"), call)
          [] form = "notindex" -> PrefixExpression(Tok("BANG"), index)

\* `o1 a o2 b o3` grouped by the ladder: the operator higher on the ladder
\* takes its two neighbours first
C10_Grouped(f1, a, f2, b, f3) ==
    LET o1 == C10_Operand(f1, IdentX)
        o2 == C10_Operand(f2, IdentY)
        o3 == C10_Operand(f3, IdentZ)
    IN  IF C10_Prec(a) < C10_Prec(b)
        THEN InfixExpression(Tok(a), o1, InfixExpression(Tok(b), o2, o3))
        ELSE InfixExpression(Tok(b), InfixExpression(Tok(a), o1, o2), o3)

\* every stream `o1 a o2 b o3` whose operators a, b are on different rungs
\* of the ladder, paired with the program the ladder gives it: one expression
\* statement holding the grouped tree
C10_Expected ==
    {<<PrecedenceStream(f1, a, f2, b, f3),
       <<ExpressionStatement(PrecedenceStream(f1, a, f2, b, f3)[1],
                             C10_Grouped(f1, a, f2, b, f3))>>>> :
        <<f1, f2, f3>> \in OperandForms \X OperandForms \X OperandForms,
        <<a, b>> \in {ab \in InfixTokens \X InfixTokens : C10_Prec(ab[1]) # C10_Prec(ab[2])}}

C10_Streams == {e[1] : e \in C10_Expected}

\* C10 (operator precedence): for binary operators a, b on different rungs
\* of the ladder, `o1 a o2 b o3` parses as one expression statement in which
\* the operator of the higher rung groups first: `x a y b z` is
\* (x a (y b z)) when prec(a) < prec(b) and ((x a y) b z) when
\* prec(a) > prec(b); an operand `-o` / `!o` keeps its prefix operator
\* inside the operand, and a call or index after a prefixed identifier
\* belongs under the prefix operator.
C10_OperatorPrecedence ==
    (pStatus = "done" /\ ps.l.toks \in C10_Streams)
        => <<ps.l.toks, program>> \in C10_Expected

\* `-x(w) + !y[w] * z` has been parsed
C10_Witness ==
    /\ pStatus = "done"
    /\ ps.l.toks = PrecedenceStream("negcall", "PLUS", "notindex", "ASTERISK", "id")
    /\ Len(program) = 1
    /\ program[1].expression.right.operator = <<42>>

\* every stream `o1 a o2 b o3` whose operators a, b are on the same rung of
\* the ladder (a = b included), paired with the program grouped to the left
C11_Expected ==
    {<<PrecedenceStream(f1, a, f2, b, f3),
       <<ExpressionStatement(
            PrecedenceStream(f1, a, f2, b, f3)[1],
            InfixExpression(Tok(b),
                            InfixExpression(Tok(a), C10_Operand(f1, IdentX),
                                            C10_Operand(f2, IdentY)),
                            C10_Operand(f3, IdentZ)))>>>> :
        <<f1, f2, f3>> \in OperandForms \X OperandForms \X OperandForms,
        <<a, b>> \in {ab \in InfixTokens \X InfixTokens : C10_Prec(ab[1]) = C10_Prec(ab[2])}}

C11_Streams == {e[1] : e \in C11_Expected}

\* C11 (left associativity): for binary operators a, b of equal precedence
\* (a = b included), `o1 a o2 b o3` parses as one expression statement
\* holding ((o1 a o2) b o3).
C11_LeftAssociativity ==
    (pStatus = "done" /\ ps.l.toks \in C11_Streams)
        => <<ps.l.toks, program>> \in C11_Expected

\* `x - y + z` has been parsed: the tree is ((x - y) + z)
C11_Witness ==
    /\ pStatus = "done"
    /\ ps.l.toks = PrecedenceStream("id", "MINUS", "id", "PLUS", "id")
    /\ Len(program) = 1
    /\ program[1].expression.operator = <<43>>
    /\ program[1].expression.left.operator = <<45>>

\* C12 (round trip): for every source that parses without errors, the
\* rendering string(parse(s)) parses again and renders to itself:
\* string(parse(string(parse(s)))) = string(parse(s)).
C12_RoundTrip ==
    (rtStatus \in {"reparsed", "panic", "hang"} /\ ps.errors = <<>>)
        => (rtStatus = "reparsed" /\ rerendered = rendered)

\* the token of the stream that comes after the peek token of parser p
C26_AfterPeek(p) ==
    IF p.l.idx <= Len(p.l.toks) THEN p.l.toks[p.l.idx] ELSE EOF_TOKEN

\* C26 (frame of expect_peek): when the peek token has the kind asked
\* for, expect_peek returns true, the peek token has become the current
\* token and the token after it the peek token (one token further, no
\* more), and the errors are as before; otherwise it returns false, the
\* errors are those of before followed by the one message
\* `Expected next token to be <asked>, got <kind of the peek token>`, and
\* the current token, the peek token and the lexer are as before.  Either
\* way no earlier message is lost or changed.
C26_ExpectPeekFrame ==
    (pStatus = "idle" /\ ep # <<>> /\ ep.calls > 0) =>
        IF ep.before.peek_token.type = ep.token
        THEN /\ ep.ok = TRUE
             /\ ps.cur_token = ep.before.peek_token
             /\ ps.peek_token = C26_AfterPeek(ep.before)
             /\ ps.l.idx = ep.before.l.idx + 1
             /\ ps.l.toks = ep.before.l.toks
             /\ ps.errors = ep.before.errors
        ELSE /\ ep.ok = FALSE
             /\ ps.errors = Append(ep.before.errors,
                                   <<"Expected next token to be", ep.token,
                                     "got", ep.before.peek_token.type>>)
             /\ ps.cur_token = ep.before.cur_token
             /\ ps.peek_token = ep.before.peek_token
             /\ ps.l = ep.before.l

\* a call that failed and left a message was followed by a call that
\* found the kind it asked for: the parser went one token further and the
\* message is still there
C26_Witness ==
    /\ ep # <<>>
    /\ ep.calls = 2
    /\ ep.ok = TRUE
    /\ Len(ep.before.errors) = 1
    /\ ps.errors = ep.before.errors
    /\ ps.cur_token = ep.before.peek_token
    /\ ps.cur_token # ep.before.cur_token

\* C27 (a grouped expression requires its `)`): when the token after `(`
\* and the expression in it is not `)`, parsing ends with an error that
\* says RPAREN was expected and names the kind of the token found there.
C27_GroupRequiresClose ==
    (pStatus \in {"done", "panic", "hang"} /\ ps.l.toks \in UnclosedGroupStreams)
        => \E i \in 1..Len(ps.errors) :
                /\ ps.errors[i][2] = "RPAREN"
                /\ ps.errors[i][4] \in {"INT", "SEMICOLON", "EOF"}

-----------------------------------------------------------------------------
(* Claims about the lexer.                                                 *)

\* C8 (lexer totality): on every input, no call of next_token fails to
\* return, and EOF is yielded after finitely many calls: every returned
\* token but EOF consumes at least one byte, so among the first
\* Len(input) + 1 tokens there is an EOF.
C8_LexerTotality ==
    /\ lxStatus # "hang"
    /\ Len(lxToks) > Len(lx.input) => EofCount(lxToks) > 0

\* C9 (EOF is absorbing): in the stream of tokens returned for any input, a
\* token that follows an EOF token is an EOF token, so EOF is yielded only
\* after the last real token.
C9_EofAbsorbing ==
    \A i \in 1..(Len(lxToks) - 1) :
        lxToks[i].type = "EOF" => lxToks[i + 1].type = "EOF"

\* where the string that opens at the first byte of the input closes: the
\* 1-based offset of the next `"`, or one past the end of the input
C23_Close(input) ==
    IF \E i \in 2..Len(input) : input[i] = QUOTE
    THEN CHOOSE i \in 2..Len(input) :
            input[i] = QUOTE /\ \A j \in 2..(i - 1) : input[j] # QUOTE
    ELSE Len(input) + 1

\* C23 (string lexing): when the input opens with `"`, the first call of
\* next_token returns a STRING token whose literal is the bytes between
\* that quote and the next `"` (or the end of the input), whatever those
\* bytes are, and the lexer is left right after the closing quote.
C23_StringLexing ==
    (/\ lxVariant = "wasm"
     /\ Len(lx.input) > 0
     /\ lx.input[1] = QUOTE
     /\ (Len(lxToks) >= 1 \/ lxStatus = "hang"))
        => /\ Len(lxToks) >= 1
           /\ lxToks[1] = Token("STRING", SubSeq(lx.input, 2, C23_Close(lx.input) - 1))
           /\ (Len(lxToks) = 1 /\ C23_Close(lx.input) <= Len(lx.input))
                => lx.position = C23_Close(lx.input)

=============================================================================
